---- MODULE Spec2Model ----
(***************************************************************************)
(* Verification model of the ephemeral-vrf repository:                     *)
(*   - the zero-copy queue engine (api/src/state/queue.rs), byte by byte;  *)
(*   - the on-chain instruction handlers (program/src/*.rs);               *)
(*   - the off-chain oracle worker (vrf-oracle/src/oracle/processor.rs).   *)
(* Account data is a sequence of bytes; byte i of the Rust slice is        *)
(* element i+1 of the sequence.                                            *)
(***************************************************************************)
EXTENDS Integers, Sequences, FiniteSets, TLC

(***************************************************************************)
(* Bounds of the model.                                                    *)
(***************************************************************************)
\* Last slot the clock reaches.
MaxSlot == 2
\* number of task handles of the worker
MaxTasks == 2
\* Length in bytes of a queue account body (after the discriminator).
QueueLen == 232

(***************************************************************************)
(* Layout constants of api/src/state/queue.rs.                             *)
(***************************************************************************)
\* size_of::<Queue>(): u32 + u32 + u8 + [u8; 3]
QUEUE_HEADER_SIZE == 12
\* size_of::<QueueItem>(): 8 + 32 + 32 + 3*4 + 3*2 + 1 + 1 + 4
QUEUE_ITEM_SIZE == 96
\* align_of::<QueueItem>(): its widest field is the u64 slot
QUEUE_ITEM_ALIGN == 8
\* size_of::<CompactAccountMeta>(): [u8; 32] + u8
COMPACT_META_SIZE == 33
\* add_item's upper bounds
MAX_METAS == 20
MAX_ARGS == 512
\* request_randomness' upper bound on the discriminator
MAX_DISCRIMINATOR == 8
\* width of a public key, a hash and a request id
KEY_BYTES == 32

(***************************************************************************)
(* Byte helpers.                                                           *)
(***************************************************************************)
Zeros(n) == [i \in 1..n |-> 0]

\* the elements of a sequence
seq_set(sq) == {sq[i] : i \in 1..Len(sq)}

\* a local `let v = e;`: F applied to the value of e, computed once
bind(e, F(_)) == CHOOSE out \in {F(v) : v \in {e}} : TRUE

\* little-endian encoding of v on n bytes (to_le_bytes)
RECURSIVE le_bytes(_, _)
le_bytes(v, n) == IF n = 0 THEN <<>> ELSE <<v % 256>> \o le_bytes(v \div 256, n - 1)

\* little-endian value of a byte sequence (from_le_bytes)
RECURSIVE le_value(_)
le_value(bytes) ==
    IF bytes = <<>> THEN 0 ELSE bytes[1] + 256 * le_value(Tail(bytes))

\* acc[off .. off+n) as a sequence
slice(acc, off, n) == SubSeq(acc, off + 1, off + n)

\* acc with bytes copied to acc[off ..] (copy_from_slice)
copy_into(acc, off, bytes) ==
    SubSeq(acc, 1, off) \o bytes \o SubSeq(acc, off + Len(bytes) + 1, Len(acc))

\* a 32-byte key whose first byte is k (the model's public keys and hashes
\* differ in their leading bytes only)
Key(k) == <<k>> \o Zeros(KEY_BYTES - 1)

\* a payload padded to 32 bytes
Pad32(bytes) == bytes \o Zeros(KEY_BYTES - Len(bytes))

(***************************************************************************)
(* Queue header: item_count u32 @0, cursor u32 @4, index u8 @8, pad @9.    *)
(***************************************************************************)
header_item_count(acc) == le_value(slice(acc, 0, 4))
header_cursor(acc) == le_value(slice(acc, 4, 4))
header_index(acc) == acc[9]
set_item_count(acc, v) == copy_into(acc, 0, le_bytes(v, 4))
set_cursor(acc, v) == copy_into(acc, 4, le_bytes(v, 4))

\* a removal that forgets the counter (variant of saturating_dec_count)
keep_item_count(acc) == acc

U32_MAX_BYTES == <<255, 255, 255, 255>>
\* u32::saturating_add(1) / saturating_sub(1) on the stored counter
saturating_inc_count(acc) ==
    IF slice(acc, 0, 4) = U32_MAX_BYTES THEN acc
    ELSE set_item_count(acc, header_item_count(acc) + 1)
saturating_dec_count(acc) ==
    IF header_item_count(acc) = 0 THEN acc
    ELSE set_item_count(acc, header_item_count(acc) - 1)

(***************************************************************************)
(* QueueItem <-> its 96 bytes.  slot, id and callback_program_id are kept  *)
(* as byte sequences; the other fields as numbers.                         *)
(***************************************************************************)
item_bytes(item) ==
    item.slot \o item.id \o item.callback_program_id
    \o le_bytes(item.callback_discriminator_offset, 4)
    \o le_bytes(item.metas_offset, 4)
    \o le_bytes(item.args_offset, 4)
    \o le_bytes(item.callback_discriminator_len, 2)
    \o le_bytes(item.metas_len, 2)
    \o le_bytes(item.args_len, 2)
    \o <<item.priority_request, item.used>>
    \o Zeros(4)

read_item_unaligned(acc, pos) ==
    [ slot |-> slice(acc, pos, 8),
      id |-> slice(acc, pos + 8, 32),
      callback_program_id |-> slice(acc, pos + 40, 32),
      callback_discriminator_offset |-> le_value(slice(acc, pos + 72, 4)),
      metas_offset |-> le_value(slice(acc, pos + 76, 4)),
      args_offset |-> le_value(slice(acc, pos + 80, 4)),
      callback_discriminator_len |-> le_value(slice(acc, pos + 84, 2)),
      metas_len |-> le_value(slice(acc, pos + 86, 2)),
      args_len |-> le_value(slice(acc, pos + 88, 2)),
      priority_request |-> acc[pos + 91],
      used |-> acc[pos + 92] ]

write_item_unaligned(acc, pos, item) == copy_into(acc, pos, item_bytes(item))

\* the u64 slot of an item; a value with a byte set above the third is
\* larger than every slot of the model and reads as SlotHuge
SlotHuge == 256 * 256 * 256
slot_value(bytes) ==
    IF \E i \in 4..8 : bytes[i] # 0 THEN SlotHuge ELSE le_value(SubSeq(bytes, 1, 3))

(***************************************************************************)
(* QueueAccount (view over the account body).                              *)
(***************************************************************************)
align_up(x, align) == ((x + align - 1) \div align) * align

items_start == align_up(QUEUE_HEADER_SIZE, QUEUE_ITEM_ALIGN)

\* QueueAccount::load: a zero cursor is initialised to items_start
load(acc) ==
    IF Len(acc) < QUEUE_HEADER_SIZE THEN [res |-> "InvalidAccountData", acc |-> acc]
    ELSE IF header_cursor(acc) = 0
         THEN [res |-> "Ok", acc |-> set_cursor(acc, items_start)]
         ELSE [res |-> "Ok", acc |-> acc]

\* write_bytes that starts over at the items area when the bytes do not fit
write_bytes_rewinding(acc, bytes) ==
    LET start == header_cursor(acc)
        end == start + Len(bytes)
    IN IF end > Len(acc)
       THEN [res |-> "AccountDataTooSmall", acc |-> set_cursor(acc, items_start),
             off |-> 0]
       ELSE [res |-> "Ok", acc |-> set_cursor(copy_into(acc, start, bytes), end),
             off |-> start]

\* write_bytes: append at the cursor and advance it
write_bytes(acc, bytes) ==
    LET start == header_cursor(acc)
        end == start + Len(bytes)
    IN IF end > Len(acc)
       THEN [res |-> "AccountDataTooSmall", acc |-> acc, off |-> 0]
       ELSE [res |-> "Ok", acc |-> set_cursor(copy_into(acc, start, bytes), end),
             off |-> start]

\* one packed CompactAccountMeta
meta_bytes(m) == m.pubkey \o <<m.is_writable>>

RECURSIVE metas_bytes(_)
metas_bytes(metas) ==
    IF metas = <<>> THEN <<>> ELSE meta_bytes(Head(metas)) \o metas_bytes(Tail(metas))

\* add_item without the upper bounds on metas and args
add_item_unbounded(acc, base_item, discriminator, metas, args) ==
    LET cur0 == header_cursor(acc)
        aligned == align_up(cur0, QUEUE_ITEM_ALIGN)
    IN IF aligned # cur0 /\ aligned > Len(acc)
       THEN [res |-> "AccountDataTooSmall", acc |-> acc, index |-> 0]
       ELSE
       LET acc1 == IF aligned # cur0
                   THEN set_cursor(copy_into(acc, cur0, Zeros(aligned - cur0)), aligned)
                   ELSE acc
           item_pos == header_cursor(acc1)
       IN IF item_pos + QUEUE_ITEM_SIZE > Len(acc1)
          THEN [res |-> "AccountDataTooSmall", acc |-> acc1, index |-> 0]
          ELSE
          LET acc2 == set_cursor(acc1, item_pos + QUEUE_ITEM_SIZE)
              w1 == write_bytes(acc2, discriminator)
          IN IF w1.res # "Ok" THEN [res |-> w1.res, acc |-> w1.acc, index |-> 0]
             ELSE
             LET w2 == write_bytes(w1.acc, metas_bytes(metas))
             IN IF w2.res # "Ok" THEN [res |-> w2.res, acc |-> w2.acc, index |-> 0]
                ELSE
                LET w3 == write_bytes(w2.acc, args)
                IN IF w3.res # "Ok" THEN [res |-> w3.res, acc |-> w3.acc, index |-> 0]
                   ELSE
                   LET item == [base_item EXCEPT
                                  !.callback_discriminator_offset = w1.off,
                                  !.callback_discriminator_len = Len(discriminator),
                                  !.metas_offset = w2.off,
                                  !.metas_len = Len(metas),
                                  !.args_offset = w3.off,
                                  !.args_len = Len(args),
                                  !.used = 1]
                       acc3 == write_item_unaligned(w3.acc, item_pos, item)
                   IN [res |-> "Ok", acc |-> saturating_inc_count(acc3),
                       index |-> header_item_count(acc3)]

\* add_item: append a new item.  Every early return keeps the bytes and the
\* cursor as the code has left them at that point.
add_item(acc, base_item, discriminator, metas, args) ==
    IF Len(metas) > MAX_METAS \/ Len(args) > MAX_ARGS
    THEN [res |-> "ArgumentSizeTooLarge", acc |-> acc, index |-> 0]
    ELSE
    LET cur0 == header_cursor(acc)
        aligned == align_up(cur0, QUEUE_ITEM_ALIGN)
    IN IF aligned # cur0 /\ aligned > Len(acc)
       THEN [res |-> "AccountDataTooSmall", acc |-> acc, index |-> 0]
       ELSE
       LET acc1 == IF aligned # cur0
                   THEN set_cursor(copy_into(acc, cur0, Zeros(aligned - cur0)), aligned)
                   ELSE acc
           item_pos == header_cursor(acc1)
       IN IF item_pos + QUEUE_ITEM_SIZE > Len(acc1)
          THEN [res |-> "AccountDataTooSmall", acc |-> acc1, index |-> 0]
          ELSE
          LET acc2 == set_cursor(acc1, item_pos + QUEUE_ITEM_SIZE)
              w1 == write_bytes(acc2, discriminator)
          IN IF w1.res # "Ok" THEN [res |-> w1.res, acc |-> w1.acc, index |-> 0]
             ELSE
             LET w2 == write_bytes(w1.acc, metas_bytes(metas))
             IN IF w2.res # "Ok" THEN [res |-> w2.res, acc |-> w2.acc, index |-> 0]
                ELSE
                LET w3 == write_bytes(w2.acc, args)
                IN IF w3.res # "Ok" THEN [res |-> w3.res, acc |-> w3.acc, index |-> 0]
                   ELSE
                   LET item == [base_item EXCEPT
                                  !.callback_discriminator_offset = w1.off,
                                  !.callback_discriminator_len = Len(discriminator),
                                  !.metas_offset = w2.off,
                                  !.metas_len = Len(metas),
                                  !.args_offset = w3.off,
                                  !.args_len = Len(args),
                                  !.used = 1]
                       acc3 == write_item_unaligned(w3.acc, item_pos, item)
                   IN [res |-> "Ok", acc |-> saturating_inc_count(acc3),
                       index |-> header_item_count(acc3)]

\* end of the walked region: min(acc.len(), header.cursor)
walk_end(acc) == IF Len(acc) < header_cursor(acc) THEN Len(acc) ELSE header_cursor(acc)

\* offset of the entry that follows the one at pos
next_pos(item, pos) ==
    align_up(pos + QUEUE_ITEM_SIZE + item.callback_discriminator_len
               + item.metas_len * COMPACT_META_SIZE + item.args_len,
             QUEUE_ITEM_ALIGN)

\* the offsets the walk of iter_items / get / remove / find visits, in order
RECURSIVE walk_positions(_, _)
walk_positions(acc, pos) ==
    IF pos + QUEUE_ITEM_SIZE > walk_end(acc) THEN <<>>
    ELSE LET item == read_item_unaligned(acc, pos)
             next == next_pos(item, pos)
         IN <<pos>> \o (IF next <= pos THEN <<>> ELSE walk_positions(acc, next))

\* offsets of the used items, in walk order
used_positions(acc) ==
    SelectSeq(walk_positions(acc, items_start),
              LAMBDA p : read_item_unaligned(acc, p).used = 1)

\* iter_items: the used items in walk order
iter_items(acc) ==
    LET ps == used_positions(acc)
    IN [i \in 1..Len(ps) |-> read_item_unaligned(acc, ps[i])]

\* get_item_by_index: the index-th used item (0-based) or none
get_item_by_index(acc, index) ==
    LET ps == used_positions(acc)
    IN IF index < Len(ps)
       THEN [found |-> TRUE, item |-> read_item_unaligned(acc, ps[index + 1])]
       ELSE [found |-> FALSE]

\* remove_item that clears the first used item whatever the index
remove_first_used(acc, index) ==
    LET ps == used_positions(acc)
    IN IF index < Len(ps)
       THEN LET pos == ps[1]
                item == [read_item_unaligned(acc, pos) EXCEPT !.used = 0]
            IN [res |-> "Ok",
                acc |-> write_item_unaligned(saturating_dec_count(acc), pos, item),
                item |-> item, pos |-> pos]
       ELSE [res |-> "InvalidQueueIndex", acc |-> acc]

\* remove_item that gives the space back once the last item is gone
remove_and_rewind(acc, index) ==
    LET ps == used_positions(acc)
    IN IF index < Len(ps)
       THEN LET pos == ps[index + 1]
                item == [read_item_unaligned(acc, pos) EXCEPT !.used = 0]
                left == write_item_unaligned(saturating_dec_count(acc), pos, item)
            IN [res |-> "Ok",
                acc |-> IF Len(ps) = 1 THEN set_cursor(left, items_start) ELSE left,
                item |-> item, pos |-> pos]
       ELSE [res |-> "InvalidQueueIndex", acc |-> acc]

\* remove_item: clear `used` of the index-th used item and decrement the count
remove_item(acc, index) ==
    LET ps == used_positions(acc)
    IN IF index < Len(ps)
       THEN LET pos == ps[index + 1]
                item == [read_item_unaligned(acc, pos) EXCEPT !.used = 0]
            IN [res |-> "Ok",
                acc |-> write_item_unaligned(saturating_dec_count(acc), pos, item),
                item |-> item, pos |-> pos]
       ELSE [res |-> "InvalidQueueIndex", acc |-> acc]

\* find_item_by_id: logical index and value of the first used item with the id
find_item_by_id(acc, id) ==
    LET ps == used_positions(acc)
        hits == {i \in 1..Len(ps) : read_item_unaligned(acc, ps[i]).id = id}
    IN IF hits = {} THEN [found |-> FALSE]
       ELSE LET i == CHOOSE i \in hits : \A j \in hits : i <= j
            IN [found |-> TRUE, index |-> i - 1,
                item |-> read_item_unaligned(acc, ps[i]), pos |-> ps[i]]

\* QueueItem::callback_discriminator / callback_args: the referenced bytes,
\* empty when the range leaves the account
callback_discriminator(item, acc) ==
    LET start == item.callback_discriminator_offset
        end == start + item.callback_discriminator_len
    IN IF end > Len(acc) THEN <<>> ELSE slice(acc, start, end - start)

callback_args(item, acc) ==
    LET start == item.args_offset
        end == start + item.args_len
    IN IF end > Len(acc) \/ start > end THEN <<>> ELSE slice(acc, start, end - start)

\* QueueItem::account_metas: metas_len packed metas at metas_offset
account_metas(item, acc) ==
    [i \in 1..item.metas_len |->
        [pubkey |-> slice(acc, item.metas_offset + (i - 1) * COMPACT_META_SIZE, KEY_BYTES),
         is_writable |->
            acc[item.metas_offset + (i - 1) * COMPACT_META_SIZE + KEY_BYTES + 1]]]

\* From<SerializableAccountMeta> for CompactAccountMeta: is_signer is dropped
to_compact(m) == [pubkey |-> m.pubkey, is_writable |-> IF m.is_writable THEN 1 ELSE 0]

\* CompactAccountMeta::to_account_meta
to_account_meta(m) ==
    [pubkey |-> m.pubkey, is_signer |-> FALSE, is_writable |-> m.is_writable # 0]

(***************************************************************************)
(* Keys.  A public key is the 32-byte Key(k) of a small number k.          *)
(***************************************************************************)
\* oracle identities (both registered in the initial state)
Identities == {1, 2}
\* the account that pays for requests
Payer == CHOOSE k \in {3} : TRUE
\* callback programs; the identity PDA ["identity"] of program p is named p
Programs == {4, 5}
\* a queue PDA [QUEUE, identity, [index]] is named by its seeds
queue_pda(identity, index) == <<identity, index>>
QueueKeys == {queue_pda(1, 0), queue_pda(2, 0)}
\* the well-known default ephemeral queue (sdk/src/consts.rs)
DEFAULT_EPHEMERAL_QUEUE == queue_pda(2, 0)

\* fees (scaled) and the time-to-live of a request in slots (scaled)
VRF_LAMPORTS_COST == 2
VRF_HIGH_PRIORITY_LAMPORTS_COST == 3
QUEUE_TTL_SLOTS == 1

\* length of the body of each queue account (InitializeOracleQueue's size)
queue_len(q) == IF q = DEFAULT_EPHEMERAL_QUEUE THEN items_start + QUEUE_ITEM_SIZE + QUEUE_ITEM_ALIGN
                ELSE QueueLen
\* Rent::minimum_balance(len), scaled to one lamport per byte
rent_minimum(q) == queue_len(q)

(***************************************************************************)
(* VRF arithmetic.  The Ristretto group is scaled to the additive group of *)
(* integers modulo GroupOrder; a point is its discrete logarithm to the    *)
(* base G = 1, a compressed point that does not decode is any other value. *)
(***************************************************************************)
GroupOrder == 251
Scalars == 0..(GroupOrder - 1)
RISTRETTO_BASEPOINT_POINT == 1

\* solana_curve25519 returns None when a point does not decode
NonePoint == 0 - 1
multiply_ristretto(s, P) == IF P \in Scalars THEN (s * P) % GroupOrder ELSE NonePoint
add_ristretto(P, R) ==
    IF P \in Scalars /\ R \in Scalars THEN (P + R) % GroupOrder ELSE NonePoint

\* solana_program::hash::hash (SHA-256), scaled to a rolling hash on bytes
RECURSIVE sha256_from(_, _, _)
sha256_from(h, bytes, i) ==
    IF i > Len(bytes) THEN h
    ELSE sha256_from((h * 31 + bytes[i] + 1) % 251, bytes, i + 1)
sha256(bytes) == sha256_from(7, bytes, 1)

\* domain prefixes (api/src/consts.rs), one byte each in the model
VRF_PREFIX_CHALLENGE == <<67>>
VRF_PREFIX_HASH_TO_POINT == <<72>>

\* Scalar::from_bytes_mod_order
hash_to_scalar(digest) == digest % GroupOrder

\* on-chain hash_to_point: hash, reduce, multiply the base point
hash_to_point(input) ==
    multiply_ristretto(hash_to_scalar(sha256(VRF_PREFIX_HASH_TO_POINT \o input)),
                       RISTRETTO_BASEPOINT_POINT)

\* the compressed bytes of a point, as hashed into the challenge
point_bytes(P) == <<IF P \in Scalars THEN P ELSE GroupOrder>>

\* a verifier that makes the check on the base point only
verify_vrf_base_only(pk, input, output_compressed, proof) ==
    LET c == hash_to_scalar(sha256(VRF_PREFIX_CHALLENGE
                                   \o point_bytes(output_compressed)
                                   \o point_bytes(proof.commitment_base_compressed)
                                   \o point_bytes(proof.commitment_hash_compressed)
                                   \o point_bytes(pk) \o input))
        lhs_base == multiply_ristretto(proof.s, RISTRETTO_BASEPOINT_POINT)
        rhs_base_r == multiply_ristretto(c, pk)
        rhs_base == IF rhs_base_r = NonePoint THEN NonePoint
                    ELSE add_ristretto(proof.commitment_base_compressed, rhs_base_r)
    IN lhs_base # NonePoint /\ rhs_base # NonePoint /\ lhs_base = rhs_base

\* on-chain verify_vrf
verify_vrf(pk, input, output_compressed, proof) ==
    bind(<<hash_to_point(input),
           hash_to_scalar(sha256(VRF_PREFIX_CHALLENGE
                                 \o point_bytes(output_compressed)
                                 \o point_bytes(proof.commitment_base_compressed)
                                 \o point_bytes(proof.commitment_hash_compressed)
                                 \o point_bytes(pk) \o input))>>,
         LAMBDA hc :
    LET h == hc[1]
        c == hc[2]
        lhs_base == multiply_ristretto(proof.s, RISTRETTO_BASEPOINT_POINT)
        rhs_base_r == multiply_ristretto(c, pk)
        rhs_base == IF rhs_base_r = NonePoint THEN NonePoint
                    ELSE add_ristretto(proof.commitment_base_compressed, rhs_base_r)
        lhs_hash == multiply_ristretto(proof.s, h)
        rhs_hash_r == multiply_ristretto(c, output_compressed)
        rhs_hash == IF rhs_hash_r = NonePoint THEN NonePoint
                    ELSE add_ristretto(proof.commitment_hash_compressed, rhs_hash_r)
    IN /\ lhs_base # NonePoint /\ rhs_base # NonePoint
       /\ lhs_hash # NonePoint /\ rhs_hash # NonePoint
       /\ lhs_base = rhs_base
       /\ lhs_hash = rhs_hash)

(***************************************************************************)
(* On-chain state.                                                         *)
(***************************************************************************)
VARIABLES
    slot,         \* Clock::get().slot
    oracle_data,  \* identity -> the Oracle account [ORACLE_DATA, identity]
    oracles,      \* the Oracles account [ORACLES]: the list of identities
    queue_data,   \* queue PDA -> the bytes of its body after the discriminator
    lamports,     \* account -> balance
    fulfilled,    \* queue PDA -> ids removed so far by Provide or Purge
    last          \* the last transaction: its inputs, result and effects

chain_vars == <<slot, oracle_data, oracles, queue_data, lamports, fulfilled, last>>

(***************************************************************************)
(* State of the off-chain worker (vrf-oracle).                             *)
(***************************************************************************)
VARIABLES
    inflight_requests,  \* in-flight requests of the worker's queue: id -> slot
    active_tasks,       \* id -> handle of the task spawned for it
    task,               \* handle -> the fulfillment task
    invocation,         \* caller -> its call of process_oracle_queue
    notification,       \* the account update the stream has not delivered yet
    cache_slot,         \* BlockhashCache: the cached slot
    cache_blockhash,    \* BlockhashCache: the cached blockhash
    cache_timestamp,    \* BlockhashCache: when the cache was last written
    now,                \* Instant::now() of the worker, in refresh periods
    refresh_task,       \* the loop spawn_refresh_task runs
    refresh_call,       \* a call of refresh_blockhash in flight
    written_by          \* which write stored the cached blockhash and slot

cache_vars ==
    <<cache_blockhash, cache_timestamp, now, refresh_task, refresh_call, written_by>>
worker_vars ==
    <<inflight_requests, active_tasks, task, invocation, notification, cache_slot,
      cache_vars>>

vars == <<chain_vars, worker_vars>>

\* the system account of a key, and all accounts that hold lamports
wallet(k) == <<k>>
Accounts == {wallet(k) : k \in Identities \cup {Payer}} \cup QueueKeys

\* the VRF secret key generate_vrf_keypair derives from an identity keypair
vrf_secret(identity) == identity % GroupOrder
vrf_public(identity) == multiply_ristretto(vrf_secret(identity), RISTRETTO_BASEPOINT_POINT)

\* sysvars as functions of the slot: the most recent slot hash and the time
slothash(s) == (s * 7 + 3) % 251
unix_timestamp(s) == s \div 2

\* hashv(&[caller_seed, slot, slothash, discriminator, program, time, idx]):
\* the digest is taken to be injective on the concatenation
hashv(caller_seed, s, sh, discriminator, program, time, idx) ==
    Pad32(<<caller_seed, s, sh, Len(discriminator)>> \o discriminator
          \o <<program, time, idx>>)

\* result of a handler: res, the new bodies and balances, what it invoked
outcome(res, qd, lam, effects, removed, item_slot) ==
    [res |-> res, queue_data |-> qd, lamports |-> lam, effects |-> effects,
     removed |-> removed, item_slot |-> item_slot]
fail(res) == outcome(res, queue_data, lamports, <<>>, <<>>, 0)

\* a transfer that reports success and moves nothing
transfer_nothing(lam, from, to, amount) == [res |-> "Ok", lamports |-> lam]

\* system_instruction::transfer from a signing system account
system_transfer(lam, from, to, amount) ==
    IF lam[from] < amount THEN [res |-> "InsufficientFunds", lamports |-> lam]
    ELSE [res |-> "Ok",
          lamports |-> [lam EXCEPT ![from] = @ - amount, ![to] = @ + amount]]

\* fees.rs transfer_fee between two program-owned or credited accounts
transfer_fee(lam, from, to, amount) ==
    IF lam[from] < amount THEN [res |-> "InsufficientFunds", lamports |-> lam]
    ELSE [res |-> "Ok",
          lamports |-> [lam EXCEPT ![from] = @ - amount, ![to] = @ + amount]]

(***************************************************************************)
(* RequestRandomness / RequestHighPriorityRandomness                       *)
(***************************************************************************)
\* RequestRandomness without the is_signer check on the identity account
request_without_identity_signature(signer, signer_signed, identity_info, identity_signed, q, args, high_priority) ==
    IF ~signer_signed THEN fail("MissingRequiredSignature")
    ELSE IF identity_info # args.callback_program_id THEN fail("InvalidSeeds")
    ELSE
    LET view == load(queue_data[q]) IN
    IF view.res # "Ok" THEN fail(view.res)
    ELSE
    LET idx == header_item_count(view.acc)
        combined_hash == hashv(args.caller_seed, slot, slothash(slot),
                               args.callback_discriminator, args.callback_program_id,
                               unix_timestamp(slot), idx)
    IN
    IF Len(args.callback_discriminator) > MAX_DISCRIMINATOR
    THEN fail("ArgumentSizeTooLarge")
    ELSE
    LET base_item == [slot |-> le_bytes(slot, 8), id |-> combined_hash,
                      callback_program_id |-> Key(args.callback_program_id),
                      callback_discriminator_offset |-> 0, metas_offset |-> 0,
                      args_offset |-> 0, callback_discriminator_len |-> 0,
                      metas_len |-> 0, args_len |-> 0,
                      priority_request |-> IF high_priority THEN 1 ELSE 0,
                      used |-> 0]
        added == add_item(view.acc, base_item, args.callback_discriminator,
                          [i \in 1..Len(args.callback_accounts_metas) |->
                              to_compact(args.callback_accounts_metas[i])],
                          args.callback_args)
    IN
    IF added.res # "Ok" THEN fail(added.res)
    ELSE
    LET qd == [queue_data EXCEPT ![q] = added.acc] IN
    IF q # DEFAULT_EPHEMERAL_QUEUE
    THEN LET cost == IF high_priority THEN VRF_HIGH_PRIORITY_LAMPORTS_COST
                     ELSE VRF_LAMPORTS_COST
             paid == system_transfer(lamports, wallet(signer), q, cost)
         IN IF paid.res # "Ok" THEN fail(paid.res)
            ELSE outcome("Ok", qd, paid.lamports, <<"add", "fee">>, <<>>, slot)
    ELSE outcome("Ok", qd, lamports, <<"add">>, <<>>, slot)

process_request_randomness(signer, signer_signed, identity_info, identity_signed, q, args, high_priority) ==
    IF ~signer_signed THEN fail("MissingRequiredSignature")
    ELSE IF identity_info # args.callback_program_id THEN fail("InvalidSeeds")
    ELSE IF ~identity_signed THEN fail("MissingRequiredSignature")
    ELSE
    LET view == load(queue_data[q]) IN
    IF view.res # "Ok" THEN fail(view.res)
    ELSE
    LET idx == header_item_count(view.acc)
        combined_hash == hashv(args.caller_seed, slot, slothash(slot),
                               args.callback_discriminator, args.callback_program_id,
                               unix_timestamp(slot), idx)
    IN
    IF Len(args.callback_discriminator) > MAX_DISCRIMINATOR
    THEN fail("ArgumentSizeTooLarge")
    ELSE
    LET base_item == [slot |-> le_bytes(slot, 8), id |-> combined_hash,
                      callback_program_id |-> Key(args.callback_program_id),
                      callback_discriminator_offset |-> 0, metas_offset |-> 0,
                      args_offset |-> 0, callback_discriminator_len |-> 0,
                      metas_len |-> 0, args_len |-> 0,
                      priority_request |-> IF high_priority THEN 1 ELSE 0,
                      used |-> 0]
        added == add_item(view.acc, base_item, args.callback_discriminator,
                          [i \in 1..Len(args.callback_accounts_metas) |->
                              to_compact(args.callback_accounts_metas[i])],
                          args.callback_args)
    IN
    IF added.res # "Ok" THEN fail(added.res)
    ELSE
    LET qd == [queue_data EXCEPT ![q] = added.acc] IN
    IF q # DEFAULT_EPHEMERAL_QUEUE
    THEN LET cost == IF high_priority THEN VRF_HIGH_PRIORITY_LAMPORTS_COST
                     ELSE VRF_LAMPORTS_COST
             paid == system_transfer(lamports, wallet(signer), q, cost)
         IN IF paid.res # "Ok" THEN fail(paid.res)
            ELSE outcome("Ok", qd, paid.lamports, <<"add", "fee">>, <<>>, slot)
    ELSE outcome("Ok", qd, lamports, <<"add">>, <<>>, slot)

(***************************************************************************)
(* A variant of ProvideRandomness that looks the request up before it      *)
(* verifies the proof (the checks in the other order).                     *)
(***************************************************************************)
provide_lookup_before_verify(signer, signer_signed, q, callback_program_info, args, callback_ok) ==
    IF ~signer_signed THEN fail("MissingRequiredSignature")
    ELSE IF signer \notin DOMAIN oracle_data THEN fail("InvalidAccountData")
    ELSE
    bind(load(queue_data[q]), LAMBDA view :
    IF view.res # "Ok" THEN fail(view.res)
    ELSE
    bind(find_item_by_id(view.acc, args.input), LAMBDA found :
    IF ~found.found THEN fail("RandomnessRequestNotFound")
    ELSE IF ~verify_vrf(oracle_data[signer].vrf_pubkey, args.input, args.output,
                        [commitment_base_compressed |-> args.commitment_base_compressed,
                         commitment_hash_compressed |-> args.commitment_hash_compressed,
                         s |-> args.s])
    THEN fail("InvalidProof")
    ELSE IF \E m \in seq_set(account_metas(found.item, view.acc)) : m.pubkey = Key(signer)
    THEN fail("InvalidCallbackAccounts")
    ELSE IF Key(callback_program_info) # found.item.callback_program_id
    THEN fail("InvalidArgument")
    ELSE IF ~callback_ok THEN fail("CallbackFailed")
    ELSE outcome("Ok", [queue_data EXCEPT ![q] = remove_item(view.acc, found.index).acc],
                 lamports, <<"remove", "cpi">>, <<found.item.id>>,
                 slot_value(found.item.slot))))

(***************************************************************************)
(* ProvideRandomness                                                       *)
(***************************************************************************)
process_provide_randomness(signer, signer_signed, q, callback_program_info, args, callback_ok) ==
    IF ~signer_signed THEN fail("MissingRequiredSignature")
    ELSE IF signer \notin DOMAIN oracle_data THEN fail("InvalidAccountData")
    ELSE IF ~verify_vrf(oracle_data[signer].vrf_pubkey, args.input, args.output,
                        [commitment_base_compressed |-> args.commitment_base_compressed,
                         commitment_hash_compressed |-> args.commitment_hash_compressed,
                         s |-> args.s])
    THEN fail("InvalidProof")
    ELSE
    bind(load(queue_data[q]), LAMBDA view :
    IF view.res # "Ok" THEN fail(view.res)
    ELSE
    bind(find_item_by_id(view.acc, args.input), LAMBDA found :
    IF ~found.found THEN fail("RandomnessRequestNotFound")
    ELSE
    bind(account_metas(found.item, view.acc), LAMBDA metas :
    IF \E i \in 1..Len(metas) : metas[i].pubkey = Key(signer)
    THEN fail("InvalidCallbackAccounts")
    ELSE IF Key(callback_program_info) # found.item.callback_program_id
    THEN fail("InvalidArgument")
    ELSE IF ~callback_ok THEN fail("CallbackFailed")
    ELSE outcome("Ok", [queue_data EXCEPT ![q] = remove_item(view.acc, found.index).acc],
                 lamports, <<"remove", "cpi">>, <<found.item.id>>,
                 slot_value(found.item.slot)))))

(***************************************************************************)
(* PurgeExpiredRequests                                                    *)
(***************************************************************************)
\* the scan loop: [res, acc, removed, total_cost] from logical index i on
\* purge_scan with the age test off by one: an item whose age equals the TTL
\* is removed too
RECURSIVE purge_scan_at_ttl(_, _, _, _, _)
purge_scan_at_ttl(acc, i, current_slot, removed, total_cost) ==
    IF i >= header_item_count(acc)
    THEN [res |-> "Ok", acc |-> acc, removed |-> removed, total_cost |-> total_cost]
    ELSE LET got == get_item_by_index(acc, i) IN
         IF ~got.found
         THEN [res |-> "InvalidAccountData", acc |-> acc, removed |-> removed,
               total_cost |-> total_cost]
         ELSE LET item_slot == slot_value(got.item.slot)
                  age == IF current_slot >= item_slot THEN current_slot - item_slot ELSE 0
              IN IF age >= QUEUE_TTL_SLOTS
                 THEN purge_scan_at_ttl(remove_item(acc, i).acc, i, current_slot,
                                        Append(removed, got.item.id), total_cost)
                 ELSE purge_scan_at_ttl(acc, i + 1, current_slot, removed, total_cost)

RECURSIVE purge_scan(_, _, _, _, _)
purge_scan(acc, i, current_slot, removed, total_cost) ==
    IF i >= header_item_count(acc)
    THEN [res |-> "Ok", acc |-> acc, removed |-> removed, total_cost |-> total_cost]
    ELSE LET got == get_item_by_index(acc, i) IN
         IF ~got.found
         THEN [res |-> "InvalidAccountData", acc |-> acc, removed |-> removed,
               total_cost |-> total_cost]
         ELSE LET item_slot == slot_value(got.item.slot)
                  age == IF current_slot >= item_slot THEN current_slot - item_slot ELSE 0
              IN IF age > QUEUE_TTL_SLOTS
                 THEN LET cost == IF got.item.priority_request = 1
                                  THEN VRF_HIGH_PRIORITY_LAMPORTS_COST
                                  ELSE VRF_LAMPORTS_COST
                      IN purge_scan(remove_item(acc, i).acc, i, current_slot,
                                    Append(removed, got.item.id), total_cost + cost)
                 ELSE purge_scan(acc, i + 1, current_slot, removed, total_cost)

\* PurgeExpiredRequests that pays the fees of the purged items to the oracle
purge_paying_fees(oracle_info, q, index) ==
    IF q \notin DOMAIN queue_data THEN fail("InvalidAccountOwner")
    ELSE IF q # queue_pda(oracle_info, index) THEN fail("InvalidSeeds")
    ELSE
    LET view == load(queue_data[q]) IN
    IF view.res # "Ok" THEN fail(view.res)
    ELSE
    LET scan == purge_scan(view.acc, 0, slot, <<>>, 0) IN
    IF scan.res # "Ok" THEN fail(scan.res)
    ELSE outcome("Ok", [queue_data EXCEPT ![q] = scan.acc],
                 transfer_fee(lamports, q, wallet(oracle_info), scan.total_cost).lamports,
                 [i \in 1..Len(scan.removed) |-> "remove"], scan.removed, 0)

process_purge_expired_requests(oracle_info, q, index) ==
    IF q \notin DOMAIN queue_data THEN fail("InvalidAccountOwner")
    ELSE IF q # queue_pda(oracle_info, index) THEN fail("InvalidSeeds")
    ELSE
    LET view == load(queue_data[q]) IN
    IF view.res # "Ok" THEN fail(view.res)
    ELSE
    LET scan == purge_scan(view.acc, 0, slot, <<>>, 0) IN
    IF scan.res # "Ok" THEN fail(scan.res)
    ELSE outcome("Ok", [queue_data EXCEPT ![q] = scan.acc], lamports,
                 [i \in 1..Len(scan.removed) |-> "remove"], scan.removed, 0)

(***************************************************************************)
(* Transactions.  A transaction whose instruction fails changes nothing.   *)
(***************************************************************************)
\* A transaction: its instruction, its inputs and the handler's outcome.
NoQueue == <<>>
transaction(op, signer, q, input, verified, r) ==
    [op |-> op, signer |-> signer, queue |-> q, input |-> input,
     verified |-> verified, r |-> r]

\* The runtime commits a transaction whose instruction succeeded and drops
\* every change of one that failed; `last` is the last committed one.
commit(tx) ==
    IF tx.r.res = "Ok"
    THEN /\ queue_data' = tx.r.queue_data
         /\ lamports' = tx.r.lamports
         /\ fulfilled' = [fulfilled EXCEPT ![tx.queue] = @ \cup seq_set(tx.r.removed)]
         /\ last' = [op |-> tx.op, signer |-> tx.signer, queue |-> tx.queue,
                     input |-> tx.input, verified |-> tx.verified,
                     effects |-> tx.r.effects, removed |-> tx.r.removed,
                     item_slot |-> tx.r.item_slot, slot |-> slot,
                     refulfilled |->
                         seq_set(tx.r.removed) \cap fulfilled[tx.queue] # {}]
         /\ UNCHANGED <<slot, oracle_data, oracles>>
    ELSE UNCHANGED chain_vars

\* the requests the callers make: arguments and the instruction variant
SerializableMeta(k, w) == [pubkey |-> Key(k), is_signer |-> FALSE, is_writable |-> w]
request_args(discriminator, metas) ==
    [caller_seed |-> 1, callback_program_id |-> 4,
     callback_discriminator |-> discriminator,
     callback_accounts_metas |-> metas, callback_args |-> <<>>]
RequestTemplates ==
    {[args |-> request_args(<<7>>, <<>>), high_priority |-> FALSE],
     [args |-> request_args(<<7>>, <<>>), high_priority |-> TRUE],
     [args |-> request_args(<<7>>, <<SerializableMeta(1, TRUE)>>), high_priority |-> FALSE],
     [args |-> request_args(<<7, 7, 7, 7, 7, 7, 7, 7, 7>>, <<>>), high_priority |-> FALSE]}
RequestFaults == {"none", "wrong_identity", "unsigned_identity"}

request_tx(q, t, fault) ==
    LET identity_info == IF fault = "wrong_identity" THEN 5
                         ELSE t.args.callback_program_id
        r == process_request_randomness(Payer, TRUE, identity_info,
                                        fault # "unsigned_identity", q, t.args,
                                        t.high_priority)
        id == hashv(t.args.caller_seed, slot, slothash(slot),
                    t.args.callback_discriminator, t.args.callback_program_id,
                    unix_timestamp(slot), header_item_count(queue_data[q]))
    IN transaction("Request", Payer, q, id, FALSE, r)

Request ==
    \E q \in DOMAIN queue_data, t \in RequestTemplates, fault \in RequestFaults :
        \E tx \in {request_tx(q, t, fault)} : commit(tx) /\ UNCHANGED worker_vars

\* a proof made with secret key sk and nonce k by the on-chain equations
prove(sk, input, k) ==
    LET h == hash_to_point(input)
        output == multiply_ristretto(sk, h)
        commitment_base == multiply_ristretto(k, RISTRETTO_BASEPOINT_POINT)
        commitment_hash == multiply_ristretto(k, h)
        pk == multiply_ristretto(sk, RISTRETTO_BASEPOINT_POINT)
        c == hash_to_scalar(sha256(VRF_PREFIX_CHALLENGE \o point_bytes(output)
                                   \o point_bytes(commitment_base)
                                   \o point_bytes(commitment_hash)
                                   \o point_bytes(pk) \o input))
    IN [input |-> input, output |-> output,
        commitment_base_compressed |-> commitment_base,
        commitment_hash_compressed |-> commitment_hash,
        s |-> (k + c * sk) % GroupOrder]

\* ids a Provide may name: the ids stored in some queue, used or not, and one
\* id that was never requested
known_ids ==
    UNION {{read_item_unaligned(queue_data[q], pos).id :
                pos \in seq_set(walk_positions(queue_data[q], items_start))} :
           q \in DOMAIN queue_data}
ProvideInputs == known_ids \cup {Pad32(<<9>>)}
ProvideFaults == {"none", "tampered_proof", "other_key", "wrong_program",
                  "callback_fails", "unregistered"}

provide_tx(oracle, q, input, fault) ==
    LET signer == IF fault = "unregistered" THEN Payer ELSE oracle
        sk == IF fault = "other_key"
              THEN vrf_secret(CHOOSE i \in Identities : i # oracle)
              ELSE vrf_secret(oracle)
    IN bind(prove(sk, input, 1), LAMBDA honest :
       bind(IF fault = "tampered_proof"
            THEN [honest EXCEPT !.s = (@ + 1) % GroupOrder]
            ELSE honest, LAMBDA args :
       transaction("Provide", signer, q, input,
                   signer \in DOMAIN oracle_data
                   /\ verify_vrf(oracle_data[signer].vrf_pubkey, args.input,
                                 args.output,
                                 [commitment_base_compressed |->
                                      args.commitment_base_compressed,
                                  commitment_hash_compressed |->
                                      args.commitment_hash_compressed,
                                  s |-> args.s]),
                   process_provide_randomness(
                       signer, TRUE, q, IF fault = "wrong_program" THEN 5 ELSE 4,
                       args, fault # "callback_fails"))))

Provide ==
    \E oracle \in Identities, q \in DOMAIN queue_data, input \in ProvideInputs,
       fault \in ProvideFaults :
        \E tx \in {provide_tx(oracle, q, input, fault)} :
            commit(tx) /\ UNCHANGED worker_vars

purge_tx(oracle_info, q, index) ==
    transaction("Purge", oracle_info, q, <<>>, FALSE,
                process_purge_expired_requests(oracle_info, q, index))

Purge ==
    \E oracle_info \in Identities, q \in DOMAIN queue_data, index \in {0, 1} :
        \E tx \in {purge_tx(oracle_info, q, index)} :
            commit(tx) /\ UNCHANGED worker_vars

AdvanceSlot ==
    /\ slot < MaxSlot
    /\ slot' = slot + 1
    /\ UNCHANGED <<oracle_data, oracles, queue_data, lamports, fulfilled, last>>
    /\ UNCHANGED worker_vars

\* the body InitializeOracleQueue leaves: a zeroed account with its index
empty_queue(q) == copy_into(Zeros(queue_len(q)), 8, <<q[2]>>)

\* the worker before it has seen anything
TaskIds == 1..MaxTasks
Callers == {"stream", "reconciler"}
NoNotification == <<>>
idle_invocation == [pc |-> "idle", items |-> <<>>, handle |-> 0]
unborn_task == [pc |-> "unborn", item |-> <<>>, attempts |-> 0,
                confirmed_success |-> FALSE]
\* the blockhash the RPC node reports as latest at a slot
latest_blockhash(s) == (s * 13 + 5) % 251
\* BlockhashCache::new: both fields fetched and stored, the refresh loop spawned
sleeping_refresh == [pc |-> "sleep", latest |-> [ok |-> FALSE, value |-> 0]]
no_refresh_call == [pc |-> "idle", latest |-> [ok |-> FALSE, value |-> 0]]
CacheInit ==
    /\ cache_slot = 0
    /\ cache_blockhash = latest_blockhash(0)
    /\ cache_timestamp = 0
    /\ now = 0
    /\ refresh_task = sleeping_refresh
    /\ refresh_call = no_refresh_call
    /\ written_by = [blockhash |-> 0, slot |-> 0, writes |-> 0]

WorkerInit ==
    /\ inflight_requests = [x \in {} |-> 0]
    /\ active_tasks = [x \in {} |-> 0]
    /\ task = [t \in TaskIds |-> unborn_task]
    /\ invocation = [c \in Callers |-> idle_invocation]
    /\ notification = NoNotification
    /\ CacheInit

\* the queue accounts that exist at the start: the one of oracle 1
InitialQueues == {queue_pda(1, 0)}

Init ==
    /\ slot = 0
    /\ oracles = <<1, 2>>
    /\ oracle_data = [i \in Identities |->
                         [vrf_pubkey |-> vrf_public(i), registration_slot |-> 0]]
    /\ queue_data = [q \in InitialQueues |-> empty_queue(q)]
    /\ lamports = [a \in Accounts |->
                      IF a \in InitialQueues THEN rent_minimum(a)
                      ELSE IF a = wallet(Payer) THEN 3 * VRF_HIGH_PRIORITY_LAMPORTS_COST
                      ELSE 0]
    /\ fulfilled = [q \in InitialQueues |-> {}]
    /\ last = [op |-> "Init", signer |-> 0, queue |-> NoQueue, input |-> <<>>,
               verified |-> FALSE, effects |-> <<>>, removed |-> <<>>,
               item_slot |-> 0, slot |-> 0, refulfilled |-> FALSE]
    /\ WorkerInit

Next == Request \/ Provide \/ Purge \/ AdvanceSlot

Spec == Init /\ [][Next]_vars

(***************************************************************************)
(* Properties of ProvideRandomness.                                        *)
(***************************************************************************)
\* every Provide transaction the model submits in the current state
ProvideTxs ==
    {provide_tx(oracle, q, input, fault) :
        oracle \in Identities, q \in DOMAIN queue_data,
        input \in ProvideInputs, fault \in ProvideFaults}

\* the used item a committed Provide or a submitted one names, if any
live_ids(q) == {it.id : it \in seq_set(iter_items(queue_data[q]))}

\* C1: once a ProvideRandomness for an id has succeeded, or the item has been
\* purged, no later ProvideRandomness with the same input succeeds: no
\* committed Provide removes an id that had been removed from that queue
\* before, so the callback is issued at most once per id.
C1_NoProvideAfterFulfilment == ~(last.op = "Provide" /\ last.refulfilled)

\* C2: no item is fulfilled in the slot in which it was requested: a
\* committed Provide ran in a slot greater than the slot stored in the item.
C2_ProvideInLaterSlot == last.op = "Provide" => last.slot > last.item_slot

\* C3: a ProvideRandomness of a registered signer whose proof does not verify
\* against the signer's vrf_pubkey fails with InvalidProof and changes
\* nothing: queue bytes (item, item_count) and balances are those before,
\* and nothing was invoked.
C3_InvalidProofNoEffect ==
    \A tx \in ProvideTxs :
        (tx.signer \in DOMAIN oracle_data /\ ~tx.verified)
            => /\ tx.r.res = "InvalidProof"
               /\ tx.r.queue_data = queue_data
               /\ tx.r.lamports = lamports
               /\ tx.r.effects = <<>>
               /\ tx.r.removed = <<>>

\* C3 witness: an invalid proof is submitted for an item that is in the queue
\* and is rejected with InvalidProof
C3_Witness ==
    \E tx \in ProvideTxs :
        /\ tx.signer \in DOMAIN oracle_data
        /\ ~tx.verified
        /\ tx.input \in live_ids(tx.queue)
        /\ tx.r.res = "InvalidProof"

\* C4: a committed Provide was signed by the oracle identity whose key and
\* the queue's index derive the queue PDA.
C4_SignerOwnsQueue ==
    last.op = "Provide"
        => last.queue = queue_pda(last.signer, header_index(queue_data[last.queue]))

\* the fee an item paid in
item_cost(item) ==
    IF item.priority_request = 1 THEN VRF_HIGH_PRIORITY_LAMPORTS_COST
    ELSE VRF_LAMPORTS_COST

\* a step that commits a Provide (it always clears a used flag)
ProvideStep == last'.op = "Provide" /\ queue_data' # queue_data

\* C5: on a queue other than the default ephemeral queue a successful
\* Provide removes the item and moves exactly the fee the request paid from
\* the queue PDA to the oracle identity.
C5_FeeMovesToOracle ==
    [][(ProvideStep /\ last'.queue # DEFAULT_EPHEMERAL_QUEUE)
        => LET q == last'.queue
               cost == item_cost(find_item_by_id(queue_data[q], last'.input).item)
           IN /\ header_item_count(queue_data'[q]) = header_item_count(queue_data[q]) - 1
              /\ lamports'[q] = lamports[q] - cost
              /\ lamports'[wallet(last'.signer)] = lamports[wallet(last'.signer)] + cost
      ]_chain_vars

\* C6: in a committed Provide on a non-default queue the callback CPI comes
\* before the fee transfer.
C6_CallbackBeforeFee ==
    (last.op = "Provide" /\ last.queue # DEFAULT_EPHEMERAL_QUEUE)
        => \E i, j \in 1..Len(last.effects) :
              i < j /\ last.effects[i] = "cpi" /\ last.effects[j] = "fee"

(***************************************************************************)
(* Request ids.  A queue with room for three items, one caller that always *)
(* sends the same request, and the owner oracle that fulfils honestly.     *)
(***************************************************************************)
PlainRequest == [args |-> request_args(<<7>>, <<>>), high_priority |-> FALSE]

RequestPlain ==
    \E q \in DOMAIN queue_data :
        \E tx \in {request_tx(q, PlainRequest, "none")} :
            commit(tx) /\ UNCHANGED worker_vars

ProvideOwner ==
    \E q \in DOMAIN queue_data, input \in ProvideInputs :
        \E tx \in {provide_tx(q[1], q, input, "none")} :
            commit(tx) /\ UNCHANGED worker_vars

ids_queue_len == items_start + 3 * (QUEUE_ITEM_SIZE + QUEUE_ITEM_ALIGN)

InitIds ==
    /\ slot = 0
    /\ oracles = <<1, 2>>
    /\ oracle_data = [i \in Identities |->
                         [vrf_pubkey |-> vrf_public(i), registration_slot |-> 0]]
    /\ queue_data = [q \in InitialQueues |->
                        copy_into(Zeros(ids_queue_len), 8, <<q[2]>>)]
    /\ lamports = [a \in Accounts |->
                      IF a \in InitialQueues THEN ids_queue_len
                      ELSE IF a = wallet(Payer) THEN 3 * VRF_HIGH_PRIORITY_LAMPORTS_COST
                      ELSE 0]
    /\ fulfilled = [q \in InitialQueues |-> {}]
    /\ last = [op |-> "Init", signer |-> 0, queue |-> NoQueue, input |-> <<>>,
               verified |-> FALSE, effects |-> <<>>, removed |-> <<>>,
               item_slot |-> 0, slot |-> 0, refulfilled |-> FALSE]
    /\ WorkerInit

NextIds == RequestPlain \/ ProvideOwner \/ Purge \/ AdvanceSlot

SpecIds == InitIds /\ [][NextIds]_vars

\* C7: in every reachable state of a queue no two live (used == 1) items
\* have the same id.
C7_LiveIdsDistinct ==
    \A q \in DOMAIN queue_data :
        LET items == iter_items(queue_data[q])
        IN \A i, j \in 1..Len(items) : items[i].id = items[j].id => i = j

\* C8: header.item_count equals the number of used items iter_items yields.
C8_CountMatchesIter ==
    \A q \in DOMAIN queue_data :
        header_item_count(queue_data[q]) = Len(iter_items(queue_data[q]))

\* C8 witness: a queue where one item was removed and another is still used
C8_Witness ==
    \E q \in DOMAIN queue_data :
        /\ header_item_count(queue_data[q]) = 1
        /\ Len(walk_positions(queue_data[q], items_start)) = 2
        /\ Len(iter_items(queue_data[q])) = 1

(***************************************************************************)
(* The off-chain worker: process_oracle_queue, called by the stream loop   *)
(* and by the periodic reconciler, and the fulfillment tasks it spawns.    *)
(* A step is the code between two awaits (a lock acquisition, an RPC).     *)
(***************************************************************************)
WorkerIdentity == CHOOSE i \in Identities : \A j \in Identities : i <= j
WorkerQueue == queue_pda(WorkerIdentity, 0)

\* `while attempts < 100` (scaled)
MAX_ATTEMPTS == 2

remove_key(f, k) == [x \in DOMAIN f \ {k} |-> f[x]]
insert_key(f, k, v) == (k :> v) @@ f

\* the used items of account bytes, as process_oracle_queue reads them
snapshot_items(bytes) ==
    IF queue_pda(WorkerIdentity, header_index(bytes)) # WorkerQueue THEN <<>>
    ELSE bind(load(bytes), LAMBDA view :
         IF view.res # "Ok" THEN <<>> ELSE iter_items(view.acc))

begin_invocation(c, bytes) ==
    invocation' = [invocation EXCEPT ![c] =
                      [pc |-> "track", items |-> snapshot_items(bytes), handle |-> 0]]

\* the stream delivers an account update: process_oracle_queue(Some(slot))
StreamNotify ==
    /\ invocation["stream"].pc = "idle"
    /\ notification # NoNotification
    /\ begin_invocation("stream", notification)
    /\ notification' = NoNotification
    /\ UNCHANGED <<chain_vars, inflight_requests, active_tasks, task, cache_slot, cache_vars>>

\* a stream notification is lost
LoseNotification ==
    /\ notification # NoNotification
    /\ notification' = NoNotification
    /\ UNCHANGED <<chain_vars, inflight_requests, active_tasks, task, invocation,
                   cache_slot, cache_vars>>

\* the reconciler's getProgramAccounts returns the account as it is now
ReconcilerScan ==
    /\ invocation["reconciler"].pc = "idle"
    /\ begin_invocation("reconciler", queue_data[WorkerQueue])
    /\ UNCHANGED <<chain_vars, inflight_requests, active_tasks, task, notification,
                   cache_slot, cache_vars>>

task_running(t) == task[t].pc \in {"run", "cleanup_tasks", "cleanup_inflight"}

\* lines 139-173: under both write locks, forget the tracked ids that are not
\* in the snapshot and abort the task whose handle is registered for them
TrackInflight(c) ==
    /\ invocation[c].pc = "track"
    /\ LET items == invocation[c].items
           current_ids == {items[i].id : i \in 1..Len(items)}
           gone == DOMAIN inflight_requests \ current_ids
           aborted == {active_tasks[id] : id \in gone \cap DOMAIN active_tasks}
       IN /\ active_tasks' = [id \in DOMAIN active_tasks \ gone |-> active_tasks[id]]
          /\ inflight_requests' =
                 [id \in DOMAIN inflight_requests \ gone |-> inflight_requests[id]]
          /\ task' = [t \in TaskIds |->
                         IF t \in aborted /\ task_running(t)
                         THEN unborn_task
                         ELSE task[t]]
          /\ invocation' = [invocation EXCEPT ![c].pc =
                               IF items = <<>> THEN "idle" ELSE "items"]
    /\ UNCHANGED <<chain_vars, notification, cache_slot, cache_vars>>

\* what is left to do after the head of the item list
next_item(inv) ==
    [pc |-> IF Len(inv.items) <= 1 THEN "idle" ELSE "items",
     items |-> Tail(inv.items), handle |-> 0]

\* A JoinHandle of a task that has finished or was aborted stays valid and
\* aborting it does nothing: every such handle is the one value dead_handle.
dead_handle == 0
retire_registered(t) ==
    [id \in DOMAIN active_tasks |->
        IF active_tasks[id] = t THEN dead_handle ELSE active_tasks[id]]
retire_pending(t) ==
    [c \in Callers |->
        IF invocation[c].handle = t THEN [invocation[c] EXCEPT !.handle = dead_handle]
        ELSE invocation[c]]

\* handles a new task can get
free_handles == {t \in TaskIds : ~task_running(t)}

\* lines 194-211: the vacant-entry check and, if vacant, the spawn
CheckAndSpawn(c) ==
    /\ invocation[c].pc = "items"
    /\ LET item == Head(invocation[c].items) IN
       IF item.id \in DOMAIN inflight_requests
       THEN /\ invocation' = [invocation EXCEPT ![c] = next_item(@)]
            /\ UNCHANGED <<inflight_requests, task>>
       ELSE /\ free_handles # {}
            /\ LET t == CHOOSE t \in free_handles : \A u \in free_handles : t <= u
               IN /\ inflight_requests' =
                         insert_key(inflight_requests, item.id, slot_value(item.slot))
                  /\ task' = [task EXCEPT ![t] =
                                 [pc |-> "run", item |-> item, attempts |-> 0,
                                  confirmed_success |-> FALSE]]
                  /\ invocation' = [invocation EXCEPT ![c].pc = "register",
                                                      ![c].handle = t]
    /\ UNCHANGED <<chain_vars, active_tasks, notification, cache_slot, cache_vars>>

\* lines 303-308: register the handle of the spawned task
RegisterHandle(c) ==
    /\ invocation[c].pc = "register"
    /\ active_tasks' = insert_key(remove_key(active_tasks, Head(invocation[c].items).id),
                                  Head(invocation[c].items).id, invocation[c].handle)
    /\ invocation' = [invocation EXCEPT ![c] = next_item(@)]
    /\ UNCHANGED <<chain_vars, inflight_requests, task, notification, cache_slot, cache_vars>>

\* process_item: the instruction a task sends, chosen by the cached slot
saturating_sub(a, b) == IF a > b THEN a - b ELSE 0
task_tx(t) ==
    IF saturating_sub(cache_slot, slot_value(task[t].item.slot)) > QUEUE_TTL_SLOTS
    THEN purge_tx(WorkerIdentity, WorkerQueue, header_index(queue_data[WorkerQueue]))
    ELSE provide_tx(WorkerIdentity, WorkerQueue, task[t].item.id, "none")

\* a retry that counts the attempt and skips the loop test
retry_without_limit(tk, n) == [tk EXCEPT !.attempts = @ + n]

\* `attempts += n` followed by the loop test `while attempts < 100`
after_attempt(tk, n) ==
    [tk EXCEPT !.attempts = @ + n,
               !.pc = IF tk.attempts + n < MAX_ATTEMPTS THEN "run" ELSE "cleanup_tasks"]

\* the transaction lands; the account update goes out on the stream, where
\* it replaces an undelivered one, or it is lost on the way
land(tx) ==
    /\ tx.r.res = "Ok"
    /\ queue_data' = tx.r.queue_data
    /\ lamports' = tx.r.lamports
    /\ notification' \in {tx.r.queue_data[WorkerQueue], NoNotification}
    /\ UNCHANGED <<slot, oracle_data, oracles, fulfilled, last>>

\* lines 248-257: sent, landed, confirmed
TaskConfirmed(t) ==
    /\ task[t].pc = "run"
    /\ task' = [task EXCEPT ![t].confirmed_success = TRUE, ![t].pc = "cleanup_tasks"]
    /\ \E tx \in {task_tx(t)} : land(tx)
    /\ UNCHANGED <<inflight_requests, active_tasks, invocation, cache_slot, cache_vars>>

\* lines 258-271: sent and landed, but the confirmation says no (n = 1) or
\* the confirmation call fails (n = 3)
TaskUnconfirmed(t) ==
    /\ task[t].pc = "run"
    /\ \E n \in {1, 3} : task' = [task EXCEPT ![t] = after_attempt(@, n)]
    /\ \E tx \in {task_tx(t)} : land(tx)
    /\ UNCHANGED <<inflight_requests, active_tasks, invocation, cache_slot, cache_vars>>

\* lines 274-282 and 258-265: the send fails, or the transaction does not
\* land or fails on chain
TaskFailed(t) ==
    /\ task[t].pc = "run"
    /\ task' = [task EXCEPT ![t] = after_attempt(@, 1)]
    /\ UNCHANGED <<chain_vars, inflight_requests, active_tasks, invocation,
                   notification, cache_slot, cache_vars>>

\* a cleanup that also drops the in-flight entry of a confirmed task
cleanup_drops_entry(t) ==
    /\ task[t].pc = "cleanup_tasks"
    /\ active_tasks' = remove_key(retire_registered(t), task[t].item.id)
    /\ inflight_requests' = remove_key(inflight_requests, task[t].item.id)
    /\ task' = [task EXCEPT ![t] = unborn_task]
    /\ invocation' = retire_pending(t)
    /\ UNCHANGED <<chain_vars, notification, cache_slot, cache_vars>>

\* lines 287-292; a confirmed task ends here
TaskCleanupTasks(t) ==
    /\ task[t].pc = "cleanup_tasks"
    /\ active_tasks' = remove_key(IF task[t].confirmed_success
                                  THEN retire_registered(t) ELSE active_tasks,
                                  task[t].item.id)
    /\ task' = [task EXCEPT ![t] = IF task[t].confirmed_success THEN unborn_task
                                   ELSE [@ EXCEPT !.pc = "cleanup_inflight"]]
    /\ invocation' = IF task[t].confirmed_success THEN retire_pending(t) ELSE invocation
    /\ UNCHANGED <<chain_vars, inflight_requests, notification, cache_slot, cache_vars>>

\* lines 294-300
TaskCleanupInflight(t) ==
    /\ task[t].pc = "cleanup_inflight"
    /\ inflight_requests' = remove_key(inflight_requests, task[t].item.id)
    /\ task' = [task EXCEPT ![t] = unborn_task]
    /\ active_tasks' = retire_registered(t)
    /\ invocation' = retire_pending(t)
    /\ UNCHANGED <<chain_vars, notification, cache_slot, cache_vars>>

\* the background refresh of the cached slot
CacheRefresh ==
    /\ cache_slot # slot
    /\ cache_slot' = slot
    /\ cache_blockhash' = latest_blockhash(slot)
    /\ UNCHANGED <<cache_timestamp, now, refresh_task, refresh_call, written_by>>
    /\ UNCHANGED <<chain_vars, inflight_requests, active_tasks, task, invocation,
                   notification>>

\* the callers send their requests up to this slot
LastRequestSlot == 0

\* a caller's request lands in the worker's queue
WorkerRequest ==
    /\ slot <= LastRequestSlot
    /\ \E tx \in {request_tx(WorkerQueue, PlainRequest, "none")} : land(tx)
    /\ UNCHANGED <<inflight_requests, active_tasks, task, invocation, cache_slot, cache_vars>>

\* requests the callers can pay for
WorkerRequests == 2

\* the worker's queue has room for one request
worker_queue_len == items_start + QUEUE_ITEM_SIZE + QUEUE_ITEM_ALIGN

InitWorker ==
    /\ slot = 0
    /\ oracles = <<1, 2>>
    /\ oracle_data = [i \in Identities |->
                         [vrf_pubkey |-> vrf_public(i), registration_slot |-> 0]]
    /\ queue_data = [q \in {WorkerQueue} |->
                        copy_into(Zeros(worker_queue_len), 8, <<q[2]>>)]
    /\ lamports = [a \in Accounts |->
                      IF a = WorkerQueue THEN worker_queue_len
                      ELSE IF a = wallet(Payer) THEN WorkerRequests * VRF_LAMPORTS_COST
                      ELSE 0]
    /\ fulfilled = [q \in {WorkerQueue} |-> {}]
    /\ last = [op |-> "Init", signer |-> 0, queue |-> NoQueue, input |-> <<>>,
               verified |-> FALSE, effects |-> <<>>, removed |-> <<>>,
               item_slot |-> 0, slot |-> 0, refulfilled |-> FALSE]
    /\ WorkerInit

InvocationStep == \E c \in Callers : TrackInflight(c) \/ CheckAndSpawn(c) \/ RegisterHandle(c)
TaskStep ==
    \E t \in TaskIds : \/ TaskConfirmed(t) \/ TaskUnconfirmed(t) \/ TaskFailed(t)
                       \/ TaskCleanupTasks(t) \/ TaskCleanupInflight(t)

NextWorker ==
    \/ WorkerRequest \/ AdvanceSlot \/ CacheRefresh
    \/ StreamNotify \/ LoseNotification \/ ReconcilerScan
    \/ InvocationStep \/ TaskStep

SpecWorker == InitWorker /\ [][NextWorker]_vars

\* C9: for every request id at most one fulfillment task is in its retry
\* loop at any time, whatever the interleaving of stream notifications,
\* reconciler scans and task completions.
C9_OneTaskPerId ==
    \A t \in TaskIds, u \in TaskIds :
        (task[t].pc = "run" /\ task[u].pc = "run" /\ task[t].item.id = task[u].item.id)
            => t = u

(***************************************************************************)
(* The worker with its update stream down: every notification is lost and  *)
(* only the periodic reconciler dispatches.  The queue has room for two    *)
(* requests.  Fairness: the reconciler's interval keeps ticking, a step    *)
(* that waits for a lock gets it, and a task whose transaction can succeed *)
(* again and again eventually sees it land and confirmed.                  *)
(***************************************************************************)
lossy_queue_len == items_start + 2 * (QUEUE_ITEM_SIZE + QUEUE_ITEM_ALIGN)

InitLossy ==
    /\ slot = 0
    /\ oracles = <<1, 2>>
    /\ oracle_data = [i \in Identities |->
                         [vrf_pubkey |-> vrf_public(i), registration_slot |-> 0]]
    /\ queue_data = [q \in {WorkerQueue} |->
                        copy_into(Zeros(lossy_queue_len), 8, <<q[2]>>)]
    /\ lamports = [a \in Accounts |->
                      IF a = WorkerQueue THEN lossy_queue_len
                      ELSE IF a = wallet(Payer) THEN WorkerRequests * VRF_LAMPORTS_COST
                      ELSE 0]
    /\ fulfilled = [q \in {WorkerQueue} |-> {}]
    /\ last = [op |-> "Init", signer |-> 0, queue |-> NoQueue, input |-> <<>>,
               verified |-> FALSE, effects |-> <<>>, removed |-> <<>>,
               item_slot |-> 0, slot |-> 0, refulfilled |-> FALSE]
    /\ WorkerInit

lost == notification' = NoNotification
LossyRequest == WorkerRequest /\ lost
LossyConfirmed(t) == TaskConfirmed(t) /\ lost
LossyUnconfirmed(t) == TaskUnconfirmed(t) /\ lost

ReconcilerStep ==
    \/ TrackInflight("reconciler") \/ CheckAndSpawn("reconciler")
    \/ RegisterHandle("reconciler")
TaskAttempt ==
    \E t \in TaskIds : TaskFailed(t) \/ LossyUnconfirmed(t) \/ LossyConfirmed(t)
TaskCleanup == \E t \in TaskIds : TaskCleanupTasks(t) \/ TaskCleanupInflight(t)

NextLossy ==
    \/ LossyRequest \/ AdvanceSlot \/ CacheRefresh
    \/ ReconcilerScan \/ ReconcilerStep \/ TaskAttempt \/ TaskCleanup

\* Fairness.  Slots pass, the steps that wait for a lock get it and a task
\* keeps going round its loop (weak fairness).  The
\* conditions on the reconciler's interval and on the tasks' transactions are
\* weak and strong fairness written out, WF(A) as []<>~ENABLED A \/ []<>A and
\* SF(A) as <>[]~ENABLED A \/ []<>A, with the enabling condition as a state
\* predicate and the step recognised by its effect on the worker's state.
scan_due == invocation["reconciler"].pc = "idle"
scan_done == invocation["reconciler"].pc = "idle" /\ invocation'["reconciler"].pc # "idle"
can_succeed == \E t \in TaskIds : task[t].pc = "run" /\ task_tx(t).r.res = "Ok"
has_succeeded ==
    \E t \in TaskIds : task[t].pc = "run" /\ task'[t].pc = "cleanup_tasks"
                                         /\ task'[t].confirmed_success
FairScan == []<>(~scan_due) \/ []<><<scan_done>>_vars
FairSuccess == <>[](~can_succeed) \/ []<><<has_succeeded>>_vars

SpecLossyFair ==
    /\ InitLossy
    /\ [][NextLossy]_vars
    /\ WF_vars(AdvanceSlot)
    /\ WF_vars(ReconcilerStep)
    /\ WF_vars(TaskAttempt)
    /\ WF_vars(TaskCleanup)
    /\ FairScan
    /\ FairSuccess

\* the ids a plain request can get
WorkerIds ==
    {hashv(PlainRequest.args.caller_seed, s, slothash(s),
           PlainRequest.args.callback_discriminator,
           PlainRequest.args.callback_program_id, unix_timestamp(s), idx) :
        s \in 0..LastRequestSlot, idx \in 0..1}

\* C10: every item that enters the worker's queue eventually leaves it
\* (fulfilled or purged by the worker), even when every stream notification
\* is lost.
C10_EventuallyProcessed ==
    \A id \in WorkerIds :
        (id \in live_ids(WorkerQueue)) ~> (id \notin live_ids(WorkerQueue))


(***************************************************************************)
(* PurgeExpiredRequests                                                    *)
(***************************************************************************)
\* the purge transactions any account can submit in this state
PurgeTxs ==
    {purge_tx(oracle_info, q, index) :
        oracle_info \in Identities, q \in DOMAIN queue_data, index \in {0, 1}}

\* the age the purge handler computes for an item in the current slot
item_age(item) ==
    IF slot >= slot_value(item.slot) THEN slot - slot_value(item.slot) ELSE 0

expired(item) == item_age(item) > QUEUE_TTL_SLOTS

fresh(item) == ~expired(item)

\* C11: a PurgeExpiredRequests naming a queue by its oracle key and index
\* succeeds without any signature and whatever the oracle account holds; it
\* removes every item older than QUEUE_TTL_SLOTS and no other: the items of
\* age <= TTL are those left, in their original order, the ids removed are
\* those of the expired items, no callback is invoked, no lamports move and
\* no other queue changes.
C11_PurgeRemovesExpiredOnly ==
    \A oracle_info \in Identities, q \in DOMAIN queue_data, index \in {0, 1} :
        \A tx \in {purge_tx(oracle_info, q, index)} :
            LET before == iter_items(queue_data[q])
            IN /\ q = queue_pda(oracle_info, index) => tx.r.res = "Ok"
               /\ tx.r.res = "Ok"
                    => /\ iter_items(tx.r.queue_data[q]) = SelectSeq(before, fresh)
                       /\ tx.r.removed =
                              [i \in 1..Len(SelectSeq(before, expired)) |->
                                  SelectSeq(before, expired)[i].id]
                       /\ \A i \in 1..Len(tx.r.effects) : tx.r.effects[i] = "remove"
                       /\ tx.r.lamports = lamports
                       /\ \A o \in DOMAIN queue_data \ {q} :
                              tx.r.queue_data[o] = queue_data[o]

\* C11 witness: a purge that succeeds on a queue holding an expired item
\* followed by one that is not expired
C11_Witness ==
    \E tx \in PurgeTxs :
        /\ tx.r.res = "Ok"
        /\ \E i, j \in 1..Len(iter_items(queue_data[tx.queue])) :
               /\ i < j
               /\ expired(iter_items(queue_data[tx.queue])[i])
               /\ fresh(iter_items(queue_data[tx.queue])[j])
        /\ Len(iter_items(tx.r.queue_data[tx.queue])) >= 1

(***************************************************************************)
(* The callback CPI of ProvideRandomness                                   *)
(***************************************************************************)
\* the program identity PDA [IDENTITY] of the VRF program
VRF_PROGRAM_IDENTITY == 6
IDENTITY == <<"identity">>

\* the instruction ProvideRandomness builds for the callback program and the
\* signer seeds it hands to invoke_signed: the accounts are the metas stored
\* in the item (a stored CompactAccountMeta carries no is_signer flag: it was
\* dropped on the way in, and comes back as false) and the seeds are empty
callback_cpi(item, acc, output) ==
    [program_id |-> item.callback_program_id,
     accounts |-> [i \in 1..Len(account_metas(item, acc)) |->
                      to_account_meta(account_metas(item, acc)[i])],
     data |-> callback_discriminator(item, acc) \o point_bytes(output)
              \o callback_args(item, acc),
     signers_seeds |-> <<>>]

\* C12: every callback CPI issued by a successful ProvideRandomness carries
\* the program identity PDA as its only signer: the account list is the
\* identity PDA (signer, read-only) followed by the stored callback metas,
\* none of them a signer, and the CPI is signed with the identity seeds.
C12_CallbackSignedByIdentity ==
    \A tx \in ProvideTxs :
        tx.r.res = "Ok"
            => \A found \in {find_item_by_id(queue_data[tx.queue], tx.input)} :
               \A ix \in {callback_cpi(found.item, queue_data[tx.queue],
                                        multiply_ristretto(vrf_secret(tx.signer),
                                                           hash_to_point(tx.input)))} :
                   /\ ix.signers_seeds = <<IDENTITY>>
                   /\ Len(ix.accounts) =
                          1 + Len(account_metas(found.item, queue_data[tx.queue]))
                   /\ ix.accounts[1] = [pubkey |-> Key(VRF_PROGRAM_IDENTITY),
                                        is_signer |-> TRUE, is_writable |-> FALSE]
                   /\ \A i \in 2..Len(ix.accounts) :
                          ix.accounts[i] =
                              to_account_meta(
                                  account_metas(found.item,
                                                queue_data[tx.queue])[i - 1])

(***************************************************************************)
(* RequestRandomness: the caller program's identity                        *)
(***************************************************************************)
\* the handler run for a payer-signed request that passes identity_info as
\* the program identity account
request_as(identity_info, identity_signed, q, t) ==
    process_request_randomness(Payer, TRUE, identity_info, identity_signed, q,
                               t.args, t.high_priority)

\* C13: a request appends an item only if the account passed as program
\* identity is the PDA ["identity"] of the supplied callback_program_id and
\* signed; otherwise it fails, and queue and balances are those before.  A
\* request that succeeds appends one item, whose callback_program_id is the
\* program whose identity signed, so every queued item names such a program.
C13_IdentitySignedRequest ==
    \A q \in DOMAIN queue_data, t \in RequestTemplates,
       identity_info \in Programs, identity_signed \in BOOLEAN :
        \A r \in {request_as(identity_info, identity_signed, q, t)} :
            IF identity_info = t.args.callback_program_id /\ identity_signed
            THEN r.res = "Ok"
                    => \A after \in {iter_items(r.queue_data[q])} :
                          /\ Len(after) = Len(iter_items(queue_data[q])) + 1
                          /\ SubSeq(after, 1, Len(after) - 1) = iter_items(queue_data[q])
                          /\ after[Len(after)].callback_program_id = Key(identity_info)
            ELSE /\ r.res \in {"InvalidSeeds", "MissingRequiredSignature"}
                 /\ r.queue_data = queue_data
                 /\ r.lamports = lamports
                 /\ r.effects = <<>>

\* C13 witness: on a queue that holds an item, a request that would be
\* enqueued with the signature of its program's identity is refused without
\* it, and refused with the identity of another program
C13_Witness ==
    \E q \in DOMAIN queue_data, t \in RequestTemplates :
        /\ Len(iter_items(queue_data[q])) >= 1
        /\ request_as(t.args.callback_program_id, TRUE, q, t).res = "Ok"
        /\ request_as(t.args.callback_program_id, FALSE, q, t).res
               = "MissingRequiredSignature"
        /\ \E p \in Programs : request_as(p, TRUE, q, t).res = "InvalidSeeds"

(***************************************************************************)
(* The two request instructions and the fee they collect                   *)
(***************************************************************************)
\* instruction tags (EphemeralVrfInstruction)
RequestHighPriorityRandomness == 3
RequestRandomness == 8
RequestTags == {RequestHighPriorityRandomness, RequestRandomness}

\* a dispatch that takes the two tags the wrong way round
request_by_tag_swapped(tag, identity_info, identity_signed, q, args) ==
    process_request_randomness(Payer, TRUE, identity_info, identity_signed, q, args,
                               tag = RequestRandomness)

\* process_instruction: the handler is called with high_priority = true for
\* RequestHighPriorityRandomness and false for RequestRandomness
request_by_tag(tag, identity_info, identity_signed, q, args) ==
    process_request_randomness(Payer, TRUE, identity_info, identity_signed, q, args,
                               tag = RequestHighPriorityRandomness)

tagged_request_tx(tag, q, t) ==
    transaction("Request", Payer, q,
                hashv(t.args.caller_seed, slot, slothash(slot),
                      t.args.callback_discriminator, t.args.callback_program_id,
                      unix_timestamp(slot), header_item_count(queue_data[q])),
                FALSE,
                request_by_tag(tag, t.args.callback_program_id, TRUE, q, t.args))

RequestByTag ==
    \E tag \in RequestTags, q \in DOMAIN queue_data, t \in RequestTemplates :
        \E tx \in {tagged_request_tx(tag, q, t)} : commit(tx) /\ UNCHANGED worker_vars

\* both the queue of oracle 1 and the default ephemeral queue exist
FeeQueues == {queue_pda(1, 0), DEFAULT_EPHEMERAL_QUEUE}

InitFees ==
    /\ slot = 0
    /\ oracles = <<1, 2>>
    /\ oracle_data = [i \in Identities |->
                         [vrf_pubkey |-> vrf_public(i), registration_slot |-> 0]]
    /\ queue_data = [q \in FeeQueues |-> empty_queue(q)]
    /\ lamports = [a \in Accounts |->
                      IF a \in FeeQueues THEN rent_minimum(a)
                      ELSE IF a = wallet(Payer) THEN 3 * VRF_HIGH_PRIORITY_LAMPORTS_COST
                      ELSE 0]
    /\ fulfilled = [q \in FeeQueues |-> {}]
    /\ last = [op |-> "Init", signer |-> 0, queue |-> NoQueue, input |-> <<>>,
               verified |-> FALSE, effects |-> <<>>, removed |-> <<>>,
               item_slot |-> 0, slot |-> 0, refulfilled |-> FALSE]
    /\ WorkerInit

NextFees == RequestByTag \/ Purge \/ AdvanceSlot

SpecFees == InitFees /\ [][NextFees]_vars

request_cost(tag) ==
    IF tag = RequestHighPriorityRandomness THEN VRF_HIGH_PRIORITY_LAMPORTS_COST
    ELSE VRF_LAMPORTS_COST

\* C14: a request that succeeds appends one item whose priority_request is 1
\* for RequestHighPriorityRandomness (tag 3) and 0 for RequestRandomness
\* (tag 8).  On a queue other than the default ephemeral queue it debits the
\* payer and credits the queue PDA by exactly VRF_HIGH_PRIORITY_LAMPORTS_COST
\* (tag 3) or VRF_LAMPORTS_COST (tag 8) and no other balance changes; on the
\* default ephemeral queue no lamports move.
C14_RequestFee ==
    \A tag \in RequestTags, q \in DOMAIN queue_data, t \in RequestTemplates :
        \A tx \in {tagged_request_tx(tag, q, t)} :
            tx.r.res = "Ok"
                => \A after \in {iter_items(tx.r.queue_data[q])} :
                   /\ Len(after) = Len(iter_items(queue_data[q])) + 1
                   /\ after[Len(after)].id = tx.input
                   /\ after[Len(after)].priority_request
                          = (IF tag = RequestHighPriorityRandomness THEN 1 ELSE 0)
                   /\ IF q = DEFAULT_EPHEMERAL_QUEUE
                      THEN tx.r.lamports = lamports
                      ELSE tx.r.lamports =
                               [lamports EXCEPT
                                   ![wallet(Payer)] = @ - request_cost(tag),
                                   ![q] = @ + request_cost(tag)]

\* C14 witness: requests of both tags have been committed on the paying
\* queue, which holds their fees, and one on the default ephemeral queue,
\* whose balance is still the rent minimum
C14_Witness ==
    /\ Len(iter_items(queue_data[DEFAULT_EPHEMERAL_QUEUE])) = 1
    /\ lamports[DEFAULT_EPHEMERAL_QUEUE] = rent_minimum(DEFAULT_EPHEMERAL_QUEUE)
    /\ \E i, j \in 1..Len(iter_items(queue_data[queue_pda(1, 0)])) :
           /\ iter_items(queue_data[queue_pda(1, 0)])[i].priority_request = 1
           /\ iter_items(queue_data[queue_pda(1, 0)])[j].priority_request = 0
    /\ lamports[queue_pda(1, 0)] = rent_minimum(queue_pda(1, 0))
           + VRF_LAMPORTS_COST + VRF_HIGH_PRIORITY_LAMPORTS_COST
    /\ lamports[wallet(Payer)] = 3 * VRF_HIGH_PRIORITY_LAMPORTS_COST
           - VRF_LAMPORTS_COST - VRF_HIGH_PRIORITY_LAMPORTS_COST

(***************************************************************************)
(* The VRF core of src/main.rs: prover and verifier over SHA-512.  A hash  *)
(* is a rolling hash whose digests are the residues modulo GroupOrder, so  *)
(* that the reduction of a digest to a scalar loses nothing and two inputs *)
(* that differ in one byte never collide.                                  *)
(***************************************************************************)
VRF_PREFIX_NONCE == <<78>>

\* Sha512 (the digest), scaled like sha256 with other constants
RECURSIVE sha512_from(_, _, _)
sha512_from(h, bytes, i) ==
    IF i > Len(bytes) THEN h
    ELSE sha512_from((h * 29 + bytes[i] + 1) % 251, bytes, i + 1)
sha512(bytes) == sha512_from(11, bytes, 1)

\* Scalar::hash_from_bytes::<Sha512>: the digest reduced modulo the order
scalar_hash_from_bytes(bytes) == sha512(bytes) % GroupOrder

\* RistrettoPoint::hash_from_bytes::<Sha512>: the digest mapped to a group
\* element by the uniform-bytes map (not a known multiple of the base point)
point_hash_from_bytes(bytes) == (sha512(bytes) * sha512(bytes) + 3) % GroupOrder

\* main.rs hash_to_point
offchain_hash_to_point(input) == point_hash_from_bytes(VRF_PREFIX_HASH_TO_POINT \o input)

\* CompressedRistretto::decompress
decompress(P) == IF P \in Scalars THEN P ELSE NonePoint

\* a prover whose response leaves the secret key out: s = k + c
compute_vrf_without_key(sk, input) ==
    LET h == offchain_hash_to_point(input)
        vrf_output == (sk * h) % GroupOrder
        pk == (sk * RISTRETTO_BASEPOINT_POINT) % GroupOrder
        k == scalar_hash_from_bytes(VRF_PREFIX_NONCE \o <<sk>> \o input)
        commitment_base == (k * RISTRETTO_BASEPOINT_POINT) % GroupOrder
        commitment_hash == (k * h) % GroupOrder
        c == scalar_hash_from_bytes(VRF_PREFIX_CHALLENGE \o point_bytes(vrf_output)
                                    \o point_bytes(commitment_base)
                                    \o point_bytes(commitment_hash)
                                    \o point_bytes(pk) \o input)
    IN [input |-> input, output |-> vrf_output,
        commitment_base_compressed |-> commitment_base,
        commitment_hash_compressed |-> commitment_hash,
        s |-> (k + c) % GroupOrder]

\* main.rs compute_vrf
compute_vrf(sk, input) ==
    LET h == offchain_hash_to_point(input)
        vrf_output == (sk * h) % GroupOrder
        pk == (sk * RISTRETTO_BASEPOINT_POINT) % GroupOrder
        k == scalar_hash_from_bytes(VRF_PREFIX_NONCE \o <<sk>> \o input)
        commitment_base == (k * RISTRETTO_BASEPOINT_POINT) % GroupOrder
        commitment_hash == (k * h) % GroupOrder
        c == scalar_hash_from_bytes(VRF_PREFIX_CHALLENGE \o point_bytes(vrf_output)
                                    \o point_bytes(commitment_base)
                                    \o point_bytes(commitment_hash)
                                    \o point_bytes(pk) \o input)
    IN [input |-> input, output |-> vrf_output,
        commitment_base_compressed |-> commitment_base,
        commitment_hash_compressed |-> commitment_hash,
        s |-> (k + c * sk) % GroupOrder]

\* main.rs verify_vrf
offchain_verify_vrf(pk, input, output_compressed, proof) ==
    LET output == decompress(output_compressed)
        commitment_base == decompress(proof.commitment_base_compressed)
        commitment_hash == decompress(proof.commitment_hash_compressed)
    IN IF output = NonePoint \/ commitment_base = NonePoint
          \/ commitment_hash = NonePoint
       THEN FALSE
       ELSE LET h == offchain_hash_to_point(input)
                c == scalar_hash_from_bytes(
                         VRF_PREFIX_CHALLENGE \o point_bytes(output_compressed)
                         \o point_bytes(proof.commitment_base_compressed)
                         \o point_bytes(proof.commitment_hash_compressed)
                         \o point_bytes(pk) \o input)
                lhs_base == (proof.s * RISTRETTO_BASEPOINT_POINT) % GroupOrder
                rhs_base == (commitment_base + c * pk) % GroupOrder
                lhs_hash == (proof.s * h) % GroupOrder
                rhs_hash == (commitment_hash + c * output) % GroupOrder
            IN lhs_base = rhs_base /\ lhs_hash = rhs_hash

(***************************************************************************)
(* The VRF functions applied to bounded inputs: a proof is made by one of  *)
(* the provers, then one of its components may be changed, and both        *)
(* verifiers give their verdict on the tuple.  `last` holds the call.      *)
(***************************************************************************)
MaxKey == 2
MaxInput == 2
\* secret keys (the nonzero scalars up to MaxKey) and 32-byte inputs
SecretKeys == 1..MaxKey
VrfInputs == {Pad32(<<b>>) : b \in 1..MaxInput}
\* a compressed point that does not decode
BadPoint == GroupOrder

proof_of(t) ==
    [commitment_base_compressed |-> t.commitment_base_compressed,
     commitment_hash_compressed |-> t.commitment_hash_compressed, s |-> t.s]

\* the record of a call: the tuple and the verdict of each verifier
vrf_call(op, side, changed, pk, t) ==
    [op |-> op, side |-> side, changed |-> changed, pk |-> pk, input |-> t.input,
     output |-> t.output,
     commitment_base_compressed |-> t.commitment_base_compressed,
     commitment_hash_compressed |-> t.commitment_hash_compressed, s |-> t.s,
     offchain |-> offchain_verify_vrf(pk, t.input, t.output, proof_of(t)),
     onchain |-> verify_vrf(pk, t.input, t.output, proof_of(t))]

\* the inputs of a call: a secret key and an input, no proof made yet
InitVrf ==
    /\ slot = 0
    /\ oracles = <<1, 2>>
    /\ oracle_data = [i \in Identities |->
                         [vrf_pubkey |-> vrf_public(i), registration_slot |-> 0]]
    /\ queue_data = [q \in InitialQueues |-> empty_queue(q)]
    /\ lamports = [a \in Accounts |-> IF a \in InitialQueues THEN rent_minimum(a) ELSE 0]
    /\ fulfilled = [q \in InitialQueues |-> {}]
    /\ last \in [op : {"Input"}, sk : SecretKeys, input : VrfInputs]
    /\ WorkerInit

\* the off-chain prover of src/main.rs
ComputeVrf ==
    /\ last.op = "Input"
    /\ last' = vrf_call("Prove", "offchain", "none",
                        (last.sk * RISTRETTO_BASEPOINT_POINT) % GroupOrder,
                        compute_vrf(last.sk, last.input))
    /\ UNCHANGED <<slot, oracle_data, oracles, queue_data, lamports, fulfilled>>
    /\ UNCHANGED worker_vars

\* a prover that follows the on-chain verifier's equations
ProveOnchain ==
    /\ last.op = "Input"
    /\ last' = vrf_call("Prove", "onchain", "none",
                        multiply_ristretto(last.sk, RISTRETTO_BASEPOINT_POINT),
                        prove(last.sk, last.input, 1))
    /\ UNCHANGED <<slot, oracle_data, oracles, queue_data, lamports, fulfilled>>
    /\ UNCHANGED worker_vars

TamperFields == {"output", "commitment_base_compressed",
                 "commitment_hash_compressed", "s", "pk", "input"}
tamper_values(field) ==
    IF field = "input" THEN VrfInputs
    ELSE IF field \in {"s", "pk"} THEN Scalars
    ELSE Scalars \cup {BadPoint}

\* one component of a tuple a prover made is changed to another value
Tamper ==
    /\ last.op = "Prove"
    /\ \E field \in TamperFields :
       \E v \in tamper_values(field) \ {last[field]} :
       \E t \in {[last EXCEPT ![field] = v]} :
           last' = vrf_call("Tamper", last.side, field, t.pk, t)
    /\ UNCHANGED <<slot, oracle_data, oracles, queue_data, lamports, fulfilled>>
    /\ UNCHANGED worker_vars

NextVrf == ComputeVrf \/ ProveOnchain \/ Tamper

SpecVrf == InitVrf /\ [][NextVrf]_vars

\* C15: for every secret key sk with pk = sk.G and every input x, the
\* verifier of src/main.rs accepts (output, proof) = compute_vrf(sk, x).
C15_VerifyAcceptsProve ==
    (last.op = "Prove" /\ last.side = "offchain") => last.offchain

\* C15 witness: a proof of the off-chain prover with a nonzero response for
\* a nonzero output has been verified
C15_Witness ==
    /\ last.op = "Prove" /\ last.side = "offchain" /\ last.offchain
    /\ last.output # 0 /\ last.s # 0 /\ last.commitment_base_compressed # 0

\* the ProvideRandomness a registered oracle submits with the proof in `last`
\* and its response s raised by one
provide_with_s_plus_one(oracle) ==
    process_provide_randomness(
        oracle, TRUE, queue_pda(oracle, 0), 4,
        [input |-> last.input, output |-> last.output,
         commitment_base_compressed |-> last.commitment_base_compressed,
         commitment_hash_compressed |-> last.commitment_hash_compressed,
         s |-> (last.s + 1) % GroupOrder],
        TRUE)

\* C16: for a valid (pk, x, output, proof) tuple, changing any one of output,
\* R_G, R_H, s, pk or x makes the verifier the tuple was valid for return
\* false; and a ProvideRandomness of the registered oracle whose s is
\* replaced by s + 1 modulo the group order fails with InvalidProof.
C16_TamperRejected ==
    /\ (last.op = "Tamper" /\ last.side = "offchain") => ~last.offchain
    /\ (last.op = "Tamper" /\ last.side = "onchain") => ~last.onchain
    /\ (last.op = "Prove" /\ last.side = "onchain" /\ last.onchain)
          => \A oracle \in Identities :
                 (oracle_data[oracle].vrf_pubkey = last.pk
                  /\ queue_pda(oracle, 0) \in DOMAIN queue_data)
                     => provide_with_s_plus_one(oracle).res = "InvalidProof"

\* C16 witness: each component of a tuple that verified has been changed and
\* the tuple rejected: here the hash commitment of an off-chain proof
C16_Witness ==
    /\ last.op = "Tamper" /\ last.side = "offchain"
    /\ last.changed = "commitment_hash_compressed"
    /\ last.commitment_hash_compressed \in Scalars
    /\ ~last.offchain

\* C17: the on-chain verifier accepts every (output, proof) the off-chain
\* prover computes under the matching key, and the on-chain and off-chain
\* verify_vrf return the same verdict on every input.
C17_SameVerdict ==
    last.op \in {"Prove", "Tamper"} => last.onchain = last.offchain

(***************************************************************************)
(* The queue engine on its own: add_item and remove_item applied to one    *)
(* account body.  As in the handlers, the bytes of a call that fails are   *)
(* dropped with the transaction; what a failed call leaves is looked at    *)
(* as a value.                                                             *)
(***************************************************************************)
EngineLen == 428
EngineQueue == queue_pda(1, 0)

\* the items added: discriminator, metas and args of several sizes
engine_template(n, discriminator, metas, args) ==
    [base_item |-> [slot |-> le_bytes(n, 8), id |-> Pad32(<<n>>),
                    callback_program_id |-> Key(4),
                    callback_discriminator_offset |-> 0, metas_offset |-> 0,
                    args_offset |-> 0, callback_discriminator_len |-> 0,
                    metas_len |-> 0, args_len |-> 0, priority_request |-> n % 2,
                    used |-> 0],
     discriminator |-> discriminator, metas |-> metas, args |-> args]
EngineTemplates ==
    {engine_template(1, <<7>>, <<>>, <<>>),
     engine_template(2, <<1, 2, 3, 4, 5, 6, 7, 8>>,
                     <<to_compact(SerializableMeta(1, TRUE))>>, <<9, 9>>),
     engine_template(3, <<7>>, [i \in 1..3 |-> to_compact(SerializableMeta(i, i = 2))],
                     <<1, 1, 1>>),
     engine_template(4, <<7>>, <<>>, [i \in 1..12 |-> i])}

engine_add(acc, t) == add_item(acc, t.base_item, t.discriminator, t.metas, t.args)

\* the item add_item stores for a template when the cursor of acc is aligned
\* to item_pos: the base item with the offsets, the lengths and used = 1
written_item(t, item_pos) ==
    [t.base_item EXCEPT
        !.callback_discriminator_offset = item_pos + QUEUE_ITEM_SIZE,
        !.callback_discriminator_len = Len(t.discriminator),
        !.metas_offset = item_pos + QUEUE_ITEM_SIZE + Len(t.discriminator),
        !.metas_len = Len(t.metas),
        !.args_offset = item_pos + QUEUE_ITEM_SIZE + Len(t.discriminator)
                        + Len(t.metas) * COMPACT_META_SIZE,
        !.args_len = Len(t.args),
        !.used = 1]

InitEngine ==
    /\ slot = 0
    /\ oracles = <<1, 2>>
    /\ oracle_data = [i \in Identities |->
                         [vrf_pubkey |-> vrf_public(i), registration_slot |-> 0]]
    /\ queue_data = [q \in {EngineQueue} |->
                        load(copy_into(Zeros(EngineLen), 8, <<0>>)).acc]
    /\ lamports = [a \in Accounts |-> IF a = EngineQueue THEN EngineLen ELSE 0]
    /\ fulfilled = [q \in {EngineQueue} |-> {}]
    /\ last = [op |-> "Init"]
    /\ WorkerInit

EngineAdd ==
    \E t \in EngineTemplates :
    \E a \in {engine_add(queue_data[EngineQueue], t)} :
        /\ a.res = "Ok"
        /\ queue_data' = [queue_data EXCEPT ![EngineQueue] = a.acc]
        /\ last' = [op |-> "add_item", index |-> a.index]
        /\ UNCHANGED <<slot, oracle_data, oracles, lamports, fulfilled>>
        /\ UNCHANGED worker_vars

EngineRemove ==
    \E index \in 0..(header_item_count(queue_data[EngineQueue]) - 1) :
    \E r \in {remove_item(queue_data[EngineQueue], index)} :
        /\ r.res = "Ok"
        /\ queue_data' = [queue_data EXCEPT ![EngineQueue] = r.acc]
        /\ last' = [op |-> "remove_item", index |-> index]
        /\ UNCHANGED <<slot, oracle_data, oracles, lamports, fulfilled>>
        /\ UNCHANGED worker_vars

\* the slots at which the scan loop of PurgeExpiredRequests is run
EnginePurgeSlots == 0..(Cardinality(EngineTemplates) + QUEUE_TTL_SLOTS + 1)

\* the scan loop of PurgeExpiredRequests applied to the account body
EnginePurge ==
    \E current_slot \in EnginePurgeSlots :
    \E scan \in {purge_scan(queue_data[EngineQueue], 0, current_slot, <<>>, 0)} :
        /\ scan.res = "Ok"
        /\ scan.removed # <<>>
        /\ queue_data' = [queue_data EXCEPT ![EngineQueue] = scan.acc]
        /\ last' = [op |-> "purge", index |-> Len(scan.removed)]
        /\ UNCHANGED <<slot, oracle_data, oracles, lamports, fulfilled>>
        /\ UNCHANGED worker_vars

NextEngine == EngineAdd \/ EngineRemove \/ EnginePurge

SpecEngine == InitEngine /\ [][NextEngine]_vars

\* what add_item followed by remove_item at the returned index gives
add_then_remove(acc, t) ==
    bind(engine_add(acc, t), LAMBDA a :
        IF a.res # "Ok" THEN [res |-> a.res]
        ELSE bind(remove_item(a.acc, a.index), LAMBDA r :
                [res |-> r.res, index |-> a.index, added |-> a.acc, removed |-> r]))

\* C18 (as stated): add_item returning logical index i followed immediately
\* by remove_item(i) removes exactly the item just added: item_count is back
\* to its prior value and every field of the returned item equals what
\* add_item wrote.
C18_RemoveReturnsWrittenItem ==
    \A t \in EngineTemplates :
    \A acc \in {queue_data[EngineQueue]} :
    \A x \in {add_then_remove(acc, t)} :
        x.res = "Ok"
            => /\ header_item_count(x.removed.acc) = header_item_count(acc)
               /\ x.removed.item
                      = written_item(t, align_up(header_cursor(acc), QUEUE_ITEM_ALIGN))

\* C18 (amended): add_item returning logical index i followed immediately by
\* remove_item(i) removes exactly the item just added: remove_item succeeds,
\* item_count is back to its prior value, the used items are those before,
\* the slot cleared is the one add_item filled, and the returned item has
\* the fields add_item wrote (base item, offsets and lengths of the stored
\* discriminator, metas and args) except `used`, which add_item wrote as 1
\* and the returned item carries as 0.
C18_AddThenRemove ==
    \A t \in EngineTemplates :
    \A acc \in {queue_data[EngineQueue]} :
    \A x \in {add_then_remove(acc, t)} :
        x.res # "Ok"
        \/ \A item_pos \in {align_up(header_cursor(acc), QUEUE_ITEM_ALIGN)} :
              /\ x.index = header_item_count(acc)
              /\ header_item_count(x.added) = header_item_count(acc) + 1
              /\ read_item_unaligned(x.added, item_pos) = written_item(t, item_pos)
              /\ header_item_count(x.removed.acc) = header_item_count(acc)
              /\ x.removed.pos = item_pos
              /\ x.removed.item = [written_item(t, item_pos) EXCEPT !.used = 0]
              /\ callback_discriminator(x.removed.item, x.removed.acc) = t.discriminator
              /\ account_metas(x.removed.item, x.removed.acc) = t.metas
              /\ callback_args(x.removed.item, x.removed.acc) = t.args
              /\ iter_items(x.removed.acc) = iter_items(acc)

\* C18 witness: a queue that holds a used item after a removed one, to which
\* an item with metas and args can still be added and then removed
C18_Witness ==
    /\ header_item_count(queue_data[EngineQueue]) = 1
    /\ Len(walk_positions(queue_data[EngineQueue], items_start)) = 2
    /\ read_item_unaligned(queue_data[EngineQueue], items_start).used = 0
    /\ \E t \in EngineTemplates :
           /\ t.metas # <<>>
           /\ add_then_remove(queue_data[EngineQueue], t).res = "Ok"

\* the stored bytes an item refers to
item_payload(item, acc) ==
    [discriminator |-> callback_discriminator(item, acc),
     metas |-> account_metas(item, acc), args |-> callback_args(item, acc)]

\* C19: when add_item fails with AccountDataTooSmall, every item stored
\* before the call is still yielded by iter_items, in the same order and
\* with unchanged fields and unchanged discriminator, metas and args, and
\* item_count is unchanged.
C19_FailedAddKeepsItems ==
    \A t \in EngineTemplates :
    \A acc \in {queue_data[EngineQueue]} :
    \A a \in {engine_add(acc, t)} :
        a.res = "AccountDataTooSmall"
            => \A before \in {iter_items(acc)}, after \in {iter_items(a.acc)} :
               /\ header_item_count(a.acc) = header_item_count(acc)
               /\ Len(after) >= Len(before)
               /\ \A i \in 1..Len(before) :
                      /\ after[i] = before[i]
                      /\ item_payload(after[i], a.acc) = item_payload(before[i], acc)

\* C19 witness: on a queue with a used item, an add_item fails with
\* AccountDataTooSmall after it has reserved the item slot and written the
\* discriminator (the cursor has moved by more than the slot)
C19_Witness ==
    /\ header_item_count(queue_data[EngineQueue]) >= 1
    /\ \E t \in EngineTemplates :
       \E a \in {engine_add(queue_data[EngineQueue], t)} :
           /\ a.res = "AccountDataTooSmall"
           /\ header_cursor(a.acc)
                  > align_up(header_cursor(queue_data[EngineQueue]), QUEUE_ITEM_ALIGN)
                    + QUEUE_ITEM_SIZE

(***************************************************************************)
(* Requests whose callback data exceeds the bounds                         *)
(***************************************************************************)
\* requests one over a bound: 9 discriminator bytes, 21 metas, 513 args bytes
OversizeTemplates ==
    {[args |-> request_args([i \in 1..(MAX_DISCRIMINATOR + 1) |-> 7], <<>>),
      high_priority |-> FALSE],
     [args |-> request_args(<<7>>, [i \in 1..(MAX_METAS + 1) |->
                                       SerializableMeta(1, FALSE)]),
      high_priority |-> FALSE],
     [args |-> [request_args(<<7>>, <<>>) EXCEPT
                   !.callback_args = [i \in 1..(MAX_ARGS + 1) |-> 0]],
      high_priority |-> TRUE]}

\* C20: a request whose callback_discriminator is longer than 8 bytes, or
\* that has more than 20 metas or more than 512 bytes of args, is rejected
\* with ArgumentSizeTooLarge; the queue bytes (item_count and items) and the
\* balances are those before.
C20_OversizeRejected ==
    \A q \in DOMAIN queue_data, t \in OversizeTemplates :
        \A r \in {request_as(t.args.callback_program_id, TRUE, q, t)} :
            /\ r.res = "ArgumentSizeTooLarge"
            /\ r.queue_data = queue_data
            /\ r.lamports = lamports
            /\ r.effects = <<>>

\* C20 witness: each of the three oversize requests is rejected on a queue
\* that holds an item and on which a request within the bounds succeeds
C20_Witness ==
    \E q \in DOMAIN queue_data :
        /\ header_item_count(queue_data[q]) >= 1
        /\ request_as(PlainRequest.args.callback_program_id, TRUE, q, PlainRequest).res
               = "Ok"
        /\ \A t \in OversizeTemplates :
               request_as(t.args.callback_program_id, TRUE, q, t).res
                   = "ArgumentSizeTooLarge"


(***************************************************************************)
(* The oracle registry and the life cycle of queue accounts:               *)
(* ModifyOracle, InitializeOracleQueue, CloseOracleQueue.                  *)
(***************************************************************************)
\* the key allowed to add and remove oracles
ADMIN_PUBKEY == 7
\* slots an oracle must have been registered before it may open a queue
ORACLE_ACTIVATION_SLOTS == 200
\* the highest slot the clock is warped to
MaxWarp == 200

\* the PDAs [ORACLE_DATA, identity] and [ORACLES], named by their seeds
oracle_data_pda(identity) == <<identity, 0, 0>>
oracles_pda == <<0, 0, 0, 0>>
\* account sizes: discriminator and Oracle { vrf_pubkey, registration_slot,
\* open_queue }; discriminator, length prefix and one key per oracle
oracle_len == 8 + KEY_BYTES + 8 + 8
oracles_len(list) == 8 + 4 + KEY_BYTES * Len(list)

\* result of a registry handler: res and the accounts it leaves
registry_outcome(res, list, od, qd, lam) ==
    [res |-> res, oracles |-> list, oracle_data |-> od, queue_data |-> qd,
     lamports |-> lam]
registry_fail(res) == registry_outcome(res, oracles, oracle_data, queue_data, lamports)

\* the function f without x / with x mapped to v
without(f, x) == [y \in DOMAIN f \ {x} |-> f[y]]
with(f, x, v) == [y \in DOMAIN f \cup {x} |-> IF y = x THEN v ELSE f[y]]

\* Vec::retain(|o| o.ne(&identity))
RECURSIVE retain_ne(_, _)
retain_ne(list, identity) ==
    IF list = <<>> THEN <<>>
    ELSE IF Head(list) = identity THEN retain_ne(Tail(list), identity)
    ELSE <<Head(list)>> \o retain_ne(Tail(list), identity)

\* steel create_pda: the payer funds the rent, the account is allocated and
\* assigned; an account that already holds data cannot be allocated
create_pda(lam, exists, target, len, payer) ==
    IF exists THEN [res |-> "AccountAlreadyInUse", lamports |-> lam]
    ELSE system_transfer(lam, wallet(payer), target,
                         IF len > lam[target] THEN len - lam[target] ELSE 0)

\* steel close_account: the data is dropped, the lamports go to the recipient
close_account(lam, target, recipient) ==
    [lam EXCEPT ![wallet(recipient)] = @ + lam[target], ![target] = 0]

\* steel resize_pda: the payer tops the rent up, then the account is resized
resize_pda(lam, payer, target, new_size) ==
    system_transfer(lam, wallet(payer), target,
                    IF new_size > lam[target] THEN new_size - lam[target] ELSE 0)

\* variant: the Oracle account is written over when it already exists
modify_oracles_push_only(signer, signer_signed, identity, oracle_pubkey, operation) ==
    IF ~signer_signed THEN registry_fail("MissingRequiredSignature")
    ELSE IF signer # ADMIN_PUBKEY THEN registry_fail("Unauthorized")
    ELSE
    LET added == operation = 0
        list == IF added THEN Append(oracles, identity)
                ELSE retain_ne(oracles, identity)
        created == create_pda(lamports, FALSE,
                              oracle_data_pda(identity), oracle_len, signer)
        lam == IF added THEN created.lamports
               ELSE close_account(lamports, oracle_data_pda(identity), signer)
        od == IF added
              THEN with(oracle_data, identity,
                        [vrf_pubkey |-> oracle_pubkey, registration_slot |-> slot,
                         open_queue |-> 0])
              ELSE without(oracle_data, identity)
        resized == resize_pda(lam, signer, oracles_pda, oracles_len(list))
    IN IF added /\ created.res # "Ok" THEN registry_fail(created.res)
       ELSE IF resized.res # "Ok" THEN registry_fail(resized.res)
       ELSE registry_outcome("Ok", list, od, queue_data, resized.lamports)

\* variant: any signer may modify the registry
modify_oracles_any_signer(signer, signer_signed, identity, oracle_pubkey, operation) ==
    IF ~signer_signed THEN registry_fail("MissingRequiredSignature")
    ELSE
    LET added == operation = 0
        list == IF added THEN Append(oracles, identity)
                ELSE retain_ne(oracles, identity)
        created == create_pda(lamports, identity \in DOMAIN oracle_data,
                              oracle_data_pda(identity), oracle_len, signer)
        lam == IF added THEN created.lamports
               ELSE close_account(lamports, oracle_data_pda(identity), signer)
        od == IF added
              THEN with(oracle_data, identity,
                        [vrf_pubkey |-> oracle_pubkey, registration_slot |-> slot,
                         open_queue |-> 0])
              ELSE without(oracle_data, identity)
        resized == resize_pda(lam, signer, oracles_pda, oracles_len(list))
    IN IF added /\ created.res # "Ok" THEN registry_fail(created.res)
       ELSE IF resized.res # "Ok" THEN registry_fail(resized.res)
       ELSE registry_outcome("Ok", list, od, queue_data, resized.lamports)

(***************************************************************************)
(* ModifyOracle                                                            *)
(***************************************************************************)
process_modify_oracles(signer, signer_signed, identity, oracle_pubkey, operation) ==
    IF ~signer_signed THEN registry_fail("MissingRequiredSignature")
    ELSE IF signer # ADMIN_PUBKEY THEN registry_fail("Unauthorized")
    ELSE
    LET added == operation = 0
        list == IF added THEN Append(oracles, identity)
                ELSE retain_ne(oracles, identity)
        created == create_pda(lamports, identity \in DOMAIN oracle_data,
                              oracle_data_pda(identity), oracle_len, signer)
        lam == IF added THEN created.lamports
               ELSE close_account(lamports, oracle_data_pda(identity), signer)
        od == IF added
              THEN with(oracle_data, identity,
                        [vrf_pubkey |-> oracle_pubkey, registration_slot |-> slot,
                         open_queue |-> 0])
              ELSE without(oracle_data, identity)
        resized == resize_pda(lam, signer, oracles_pda, oracles_len(list))
    IN IF added /\ created.res # "Ok" THEN registry_fail(created.res)
       ELSE IF resized.res # "Ok" THEN registry_fail(resized.res)
       ELSE registry_outcome("Ok", list, od, queue_data, resized.lamports)

(***************************************************************************)
(* InitializeOracleQueue                                                   *)
(***************************************************************************)
\* variant: a queue may be opened as soon as the oracle is registered
initialize_without_delay(signer, signer_signed, oracle_info, q, index) ==
    IF ~signer_signed THEN registry_fail("MissingRequiredSignature")
    ELSE IF q \in DOMAIN queue_data THEN registry_fail("AccountAlreadyInitialized")
    ELSE IF q # queue_pda(oracle_info, index) THEN registry_fail("InvalidSeeds")
    ELSE IF oracle_info \notin DOMAIN oracle_data THEN registry_fail("InvalidAccountData")
    ELSE
    LET created == create_pda(lamports, FALSE, q, rent_minimum(q), signer)
    IN IF created.res # "Ok" THEN registry_fail(created.res)
       ELSE registry_outcome("Ok", oracles, oracle_data,
                             with(queue_data, q, empty_queue(q)), created.lamports)

process_initialize_oracle_queue(signer, signer_signed, oracle_info, q, index) ==
    IF ~signer_signed THEN registry_fail("MissingRequiredSignature")
    ELSE IF q \in DOMAIN queue_data THEN registry_fail("AccountAlreadyInitialized")
    ELSE IF q # queue_pda(oracle_info, index) THEN registry_fail("InvalidSeeds")
    ELSE IF oracle_info \notin DOMAIN oracle_data THEN registry_fail("InvalidAccountData")
    ELSE IF slot - oracle_data[oracle_info].registration_slot < ORACLE_ACTIVATION_SLOTS
    THEN registry_fail("Unauthorized")
    ELSE
    LET created == create_pda(lamports, FALSE, q, rent_minimum(q), signer)
    IN IF created.res # "Ok" THEN registry_fail(created.res)
       ELSE registry_outcome("Ok", oracles, oracle_data,
                             with(queue_data, q, empty_queue(q)), created.lamports)

(***************************************************************************)
(* CloseOracleQueue                                                        *)
(***************************************************************************)
process_close_oracle_queue(oracle_info, oracle_signed, q, index) ==
    IF ~oracle_signed THEN registry_fail("MissingRequiredSignature")
    ELSE IF oracle_info \notin DOMAIN oracle_data THEN registry_fail("InvalidAccountOwner")
    ELSE IF q \notin DOMAIN queue_data THEN registry_fail("InvalidAccountOwner")
    ELSE IF q # queue_pda(oracle_info, index) THEN registry_fail("InvalidSeeds")
    ELSE IF header_item_count(queue_data[q]) # 0 THEN registry_fail("QueueNotEmpty")
    ELSE registry_outcome("Ok", oracles,
             [oracle_data EXCEPT ![oracle_info].open_queue =
                                     saturating_sub(@, 1)],
             without(queue_data, q), close_account(lamports, q, oracle_info))

(***************************************************************************)
(* Transactions on the registry.                                           *)
(***************************************************************************)
RegistryIndexes == {0}
RegistryQueues == {queue_pda(i, k) : i \in Identities, k \in RegistryIndexes}
RegistryAccounts ==
    {wallet(k) : k \in Identities \cup {Payer, ADMIN_PUBKEY}} \cup RegistryQueues
    \cup {oracle_data_pda(i) : i \in Identities} \cup {oracles_pda}

\* a successful registry instruction is committed, a failed one leaves nothing
commit_registry(call, r) ==
    IF r.res = "Ok"
    THEN /\ oracles' = r.oracles
         /\ oracle_data' = r.oracle_data
         /\ queue_data' = r.queue_data
         /\ lamports' = r.lamports
         /\ last' = call
         /\ UNCHANGED <<slot, fulfilled>>
    ELSE UNCHANGED chain_vars

ModifyOracle ==
    \E signer \in {ADMIN_PUBKEY, Payer}, signer_signed \in BOOLEAN,
       identity \in Identities, operation \in {0, 1} :
        /\ commit_registry([op |-> "ModifyOracle", signer |-> signer,
                            identity |-> identity, operation |-> operation],
                           process_modify_oracles(signer, signer_signed, identity,
                                                  vrf_public(identity), operation))
        /\ UNCHANGED worker_vars

\* the signer is the key that pays for the account: the payer or the oracle
InitializeOracleQueue ==
    \E oracle_info \in Identities, signer_signed \in BOOLEAN,
       q \in RegistryQueues, index \in RegistryIndexes :
    \E signer \in {Payer, oracle_info} :
        /\ commit_registry([op |-> "InitializeOracleQueue", signer |-> signer,
                            oracle_info |-> oracle_info, queue |-> q],
                           process_initialize_oracle_queue(signer, signer_signed,
                                                           oracle_info, q, index))
        /\ UNCHANGED worker_vars

CloseOracleQueue ==
    \E oracle_info \in Identities, oracle_signed \in BOOLEAN,
       q \in RegistryQueues, index \in RegistryIndexes :
        /\ commit_registry([op |-> "CloseOracleQueue", signer |-> oracle_info,
                            oracle_info |-> oracle_info, queue |-> q],
                           process_close_oracle_queue(oracle_info, oracle_signed,
                                                      q, index))
        /\ UNCHANGED worker_vars

\* the first request into a live queue
RegistryRequest ==
    \E q \in DOMAIN queue_data :
        /\ header_item_count(queue_data[q]) = 0
        /\ fulfilled[q] = {}
        /\ \E tx \in {request_tx(q, PlainRequest, "none")} :
               commit(tx) /\ UNCHANGED worker_vars

\* ProgramTestContext::warp_to_slot: to the last slot before an oracle
\* registered at slot 0 may open a queue, and to the last slot of the run
WarpTargets == {ORACLE_ACTIVATION_SLOTS - 1, MaxWarp}
WarpSlot ==
    /\ \E s \in WarpTargets : s > slot /\ slot' = s
    /\ UNCHANGED <<oracle_data, oracles, queue_data, lamports, fulfilled, last>>
    /\ UNCHANGED worker_vars

\* after Initialize: an empty registry, no oracle, no queue
InitRegistry ==
    /\ slot = 0
    /\ oracles = <<>>
    /\ oracle_data = [i \in {} |-> 0]
    /\ queue_data = [q \in {} |-> 0]
    /\ lamports = [a \in RegistryAccounts |->
                      IF a = wallet(ADMIN_PUBKEY) THEN 2 * oracle_len + oracles_len(<<1, 2>>)
                      ELSE IF a = wallet(Payer)
                      THEN rent_minimum(queue_pda(1, 0)) + rent_minimum(queue_pda(2, 0))
                           + 2 * VRF_LAMPORTS_COST
                      ELSE IF a = oracles_pda THEN oracles_len(<<>>)
                      ELSE 0]
    /\ fulfilled = [q \in RegistryQueues |-> {}]
    /\ last = [op |-> "Init"]
    /\ WorkerInit

NextRegistry ==
    \/ ModifyOracle \/ InitializeOracleQueue \/ CloseOracleQueue
    \/ RegistryRequest \/ ProvideOwner \/ WarpSlot

SpecRegistry == InitRegistry /\ [][NextRegistry]_vars

\* the transactions InitializeOracleQueue can be called with
InitializeCalls ==
    {c \in [signer : {Payer} \cup Identities, signer_signed : BOOLEAN,
            oracle_info : Identities, queue : RegistryQueues,
            index : RegistryIndexes] : c.signer \in {Payer, c.oracle_info}}
initialize_call(c) ==
    process_initialize_oracle_queue(c.signer, c.signer_signed, c.oracle_info,
                                    c.queue, c.index)
\* the oracle is registered, but for less than the activation delay
registered_early(identity) ==
    /\ identity \in DOMAIN oracle_data
    /\ slot - oracle_data[identity].registration_slot < ORACLE_ACTIVATION_SLOTS

\* C21: InitializeOracleQueue succeeds only from 200 slots after the
\* oracle's registration_slot on: an earlier attempt creates no queue and
\* changes nothing, and fails with Unauthorized when nothing else is wrong
\* with it; so every queue that comes into existence belongs to an oracle
\* registered at least 200 slots before.
C21_ActivationDelay ==
    [][/\ \A c \in InitializeCalls :
            registered_early(c.oracle_info) =>
                \E r \in {initialize_call(c)} :
                    /\ r = registry_fail(r.res)
                    /\ r.res # "Ok"
                    /\ (/\ c.signer_signed
                        /\ c.queue = queue_pda(c.oracle_info, c.index)
                        /\ c.queue \notin DOMAIN queue_data)
                       => r.res = "Unauthorized"
       /\ \A q \in DOMAIN queue_data' \ DOMAIN queue_data :
            /\ q[1] \in DOMAIN oracle_data
            /\ slot - oracle_data[q[1]].registration_slot >= ORACLE_ACTIVATION_SLOTS
      ]_vars
\* a queue has just been opened while another oracle is still too young
C21_Witness ==
    /\ last.op = "InitializeOracleQueue"
    /\ last.queue \in DOMAIN queue_data
    /\ \E i \in Identities :
           registered_early(i) /\ queue_pda(i, 0) \notin DOMAIN queue_data

\* C22: a queue PDA of identity I comes into existence only by an
\* InitializeOracleQueue transaction that I itself signed.
C22_QueueCreatedByItsOracle ==
    [][\A q \in DOMAIN queue_data' \ DOMAIN queue_data :
           last'.op = "InitializeOracleQueue" /\ last'.signer = q[1]]_vars

\* the transactions CloseOracleQueue can be called with on a live queue of
\* the oracle, with the accounts its seeds name
CloseCalls ==
    {c \in [oracle_info : Identities, oracle_signed : BOOLEAN,
            queue : DOMAIN queue_data, index : RegistryIndexes] :
        c.queue = queue_pda(c.oracle_info, c.index)}
close_call(c) ==
    process_close_oracle_queue(c.oracle_info, c.oracle_signed, c.queue, c.index)
\* the queue is gone and everything it held is with the oracle identity
closed_to_oracle(r, c) ==
    /\ r.res = "Ok"
    /\ c.queue \notin DOMAIN r.queue_data
    /\ r.lamports[c.queue] = 0
    /\ r.lamports[wallet(c.oracle_info)] =
           lamports[wallet(c.oracle_info)] + lamports[c.queue]
    /\ r.oracles = oracles

\* C23: CloseOracleQueue on a queue with item_count > 0 fails with
\* QueueNotEmpty and leaves the queue, the lamports and the Oracle data as
\* they were; on an empty queue, signed by the oracle identity, it closes
\* the queue and credits all its lamports to the oracle identity.
C23_CloseOnlyWhenEmpty ==
    \A c \in CloseCalls :
        \E r \in {close_call(c)} :
            /\ header_item_count(queue_data[c.queue]) > 0 =>
                   /\ r = registry_fail(r.res)
                   /\ c.oracle_signed => r.res = "QueueNotEmpty"
            /\ (header_item_count(queue_data[c.queue]) = 0 /\ c.oracle_signed) =>
                   closed_to_oracle(r, c)

\* the live queue accounts of an identity
live_queues(identity) == {q \in DOMAIN queue_data : q[1] = identity}

\* C24: Oracle.open_queue of every registered identity equals the number of
\* live Queue accounts of that identity.
C24_OpenQueueCountsLiveQueues ==
    \A i \in DOMAIN oracle_data :
        oracle_data[i].open_queue = Cardinality(live_queues(i))

\* the transactions ModifyOracle can be called with
ModifyCalls ==
    [signer : {ADMIN_PUBKEY, Payer}, signer_signed : BOOLEAN,
     identity : Identities, operation : {0, 1}]
modify_call(c) ==
    process_modify_oracles(c.signer, c.signer_signed, c.identity,
                           vrf_public(c.identity), c.operation)

\* C25: ModifyOracle(remove) of an identity that still has an open queue is
\* rejected and leaves the registry and the Oracle data unchanged, so every
\* Queue account belongs to an identity that has an Oracle data account.
C25_NoQueueWithoutOracle ==
    /\ \A c \in ModifyCalls :
           (/\ c.operation # 0
            /\ c.identity \in DOMAIN oracle_data
            /\ oracle_data[c.identity].open_queue > 0) =>
               \E r \in {modify_call(c)} : r.res # "Ok" /\ r = registry_fail(r.res)
    /\ \A q \in DOMAIN queue_data : q[1] \in DOMAIN oracle_data

\* the elements of a list are pairwise distinct
no_duplicates(list) ==
    \A i, j \in 1..Len(list) : list[i] = list[j] => i = j
\* the registry lists, once each, the identities that have an Oracle account
registry_matches(list, od) ==
    no_duplicates(list) /\ seq_set(list) = DOMAIN od

\* C26: after any sequence of ModifyOracle additions and removals, adding
\* an identity twice and removing an unregistered one included, the
\* registry lists without duplicates exactly the identities that have a
\* live Oracle data account.
C26_RegistryMatchesOracles ==
    /\ registry_matches(oracles, oracle_data)
    /\ \A c \in ModifyCalls :
           \E r \in {modify_call(c)} : registry_matches(r.oracles, r.oracle_data)
\* one oracle was removed while another stays registered
C26_Witness ==
    /\ last.op = "ModifyOracle"
    /\ last.operation = 1
    /\ last.identity \notin DOMAIN oracle_data
    /\ oracles # <<>>

\* C27: a ModifyOracle whose signer is not the admin fails, with
\* Unauthorized when it is signed, and changes nothing; the registry list
\* is changed by no transaction but a ModifyOracle signed by the admin.
C27_OnlyAdminModifies ==
    [][/\ \A c \in ModifyCalls :
            c.signer # ADMIN_PUBKEY =>
                \E r \in {modify_call(c)} :
                    /\ r = registry_fail(r.res)
                    /\ r.res # "Ok"
                    /\ c.signer_signed => r.res = "Unauthorized"
       /\ oracles' # oracles =>
            last'.op = "ModifyOracle" /\ last'.signer = ADMIN_PUBKEY
      ]_vars
\* the admin has changed the registry and a funded non-admin key exists
C27_Witness ==
    /\ last.op = "ModifyOracle"
    /\ last.signer = ADMIN_PUBKEY
    /\ oracles # <<>>
    /\ lamports[wallet(Payer)] >= oracle_len

\* the item the transaction names is in the queue and its stored callback
\* metas hold the key of the transaction's signer
names_signer(tx) ==
    \E found \in {find_item_by_id(queue_data[tx.queue], tx.input)} :
        /\ found.found
        /\ \E m \in seq_set(account_metas(found.item, queue_data[tx.queue])) :
               m.pubkey = Key(tx.signer)

\* C28: a ProvideRandomness for an item whose stored callback metas contain
\* the key of the oracle signer fails with InvalidCallbackAccounts; the item
\* stays in the queue and no callback is invoked.
C28_SignerNotInCallback ==
    \A tx \in ProvideTxs :
        names_signer(tx) =>
            /\ tx.r.res = "InvalidCallbackAccounts"
            /\ tx.r.queue_data = queue_data
            /\ tx.r.lamports = lamports
            /\ tx.r.effects = <<>>
            /\ tx.r.removed = <<>>

(***************************************************************************)
(* BlockhashCache: the refresh loop, refresh_blockhash and the readers.    *)
(***************************************************************************)
\* cache_timestamp.elapsed() > 60 s, in units of the refresh period
CACHE_MAX_AGE == 1
\* how far the worker's clock runs and how many writes the cache takes
MaxNow == 3
MaxCacheWrites == 3

\* the answers an RPC call for the latest blockhash / the slot can give
rpc_blockhash == {[ok |-> TRUE, value |-> latest_blockhash(slot)],
                  [ok |-> FALSE, value |-> 0]}
rpc_slot == {[ok |-> TRUE, value |-> slot], [ok |-> FALSE, value |-> 0]}

Tick ==
    /\ now < MaxNow
    /\ now' = now + 1
    /\ UNCHANGED <<chain_vars, inflight_requests, active_tasks, task, invocation,
                   notification, cache_slot, cache_blockhash, cache_timestamp,
                   refresh_task, refresh_call, written_by>>

\* spawn_refresh_task, lines 49-56: the loop wakes up and finds the cache old
RefreshWake ==
    /\ refresh_task.pc = "sleep"
    /\ written_by.writes < MaxCacheWrites
    /\ now - cache_timestamp > CACHE_MAX_AGE
    /\ refresh_task' = [refresh_task EXCEPT !.pc = "get_latest_blockhash"]
    /\ UNCHANGED <<chain_vars, inflight_requests, active_tasks, task, invocation,
                   notification, cache_slot, cache_blockhash, cache_timestamp,
                   now, refresh_call, written_by>>

\* lines 57-59
RefreshGetBlockhash ==
    /\ refresh_task.pc = "get_latest_blockhash"
    /\ \E latest \in rpc_blockhash :
           refresh_task' = [pc |-> "get_slot", latest |-> latest]
    /\ UNCHANGED <<chain_vars, inflight_requests, active_tasks, task, invocation,
                   notification, cache_slot, cache_blockhash, cache_timestamp,
                   now, refresh_call, written_by>>

\* lines 60-68: the slot is fetched; both answers Ok, the three fields are
\* stored under the write lock
RefreshGetSlotAndWrite ==
    /\ refresh_task.pc = "get_slot"
    /\ refresh_task' = sleeping_refresh
    /\ \E new_slot \in rpc_slot :
           IF refresh_task.latest.ok /\ new_slot.ok
           THEN /\ cache_blockhash' = refresh_task.latest.value
                /\ cache_slot' = new_slot.value
                /\ cache_timestamp' = now
                /\ written_by' = [blockhash |-> written_by.writes + 1,
                                  slot |-> written_by.writes + 1,
                                  writes |-> written_by.writes + 1]
           ELSE UNCHANGED <<cache_blockhash, cache_slot, cache_timestamp, written_by>>
    /\ UNCHANGED <<chain_vars, inflight_requests, active_tasks, task, invocation,
                   notification, now, refresh_call>>

\* refresh_blockhash, lines 86-89: a task whose transaction failed asks for a
\* fresh blockhash
RefreshBlockhashGet ==
    /\ refresh_call.pc = "idle"
    /\ written_by.writes < MaxCacheWrites
    /\ \E latest \in rpc_blockhash :
           refresh_call' = [pc |-> "write", latest |-> latest]
    /\ UNCHANGED <<chain_vars, inflight_requests, active_tasks, task, invocation,
                   notification, cache_slot, cache_blockhash, cache_timestamp,
                   now, refresh_task, written_by>>

\* refresh_blockhash, lines 90-94: blockhash and timestamp are stored
RefreshBlockhashWrite ==
    /\ refresh_call.pc = "write"
    /\ refresh_call' = no_refresh_call
    /\ IF refresh_call.latest.ok
       THEN /\ cache_blockhash' = refresh_call.latest.value
            /\ cache_timestamp' = now
            /\ written_by' = [written_by EXCEPT !.blockhash = written_by.writes + 1,
                                                !.writes = @ + 1]
       ELSE UNCHANGED <<cache_blockhash, cache_timestamp, written_by>>
    /\ UNCHANGED <<chain_vars, inflight_requests, active_tasks, task, invocation,
                   notification, cache_slot, now, refresh_task>>

\* get_blockhash_and_slot: both fields read under one read lock
GetBlockhashAndSlot ==
    /\ last' = [op |-> "get_blockhash_and_slot", blockhash |-> cache_blockhash,
                slot |-> cache_slot, blockhash_written_by |-> written_by.blockhash,
                slot_written_by |-> written_by.slot]
    /\ UNCHANGED <<slot, oracle_data, oracles, queue_data, lamports, fulfilled>>
    /\ UNCHANGED worker_vars

InitCache ==
    /\ slot = 0
    /\ oracles = <<1, 2>>
    /\ oracle_data = [i \in Identities |->
                         [vrf_pubkey |-> vrf_public(i), registration_slot |-> 0]]
    /\ queue_data = [q \in InitialQueues |-> empty_queue(q)]
    /\ lamports = [a \in Accounts |-> IF a \in InitialQueues THEN rent_minimum(a) ELSE 0]
    /\ fulfilled = [q \in InitialQueues |-> {}]
    /\ last = [op |-> "Init"]
    /\ WorkerInit

NextCache ==
    \/ AdvanceSlot \/ Tick \/ RefreshWake \/ RefreshGetBlockhash
    \/ RefreshGetSlotAndWrite \/ RefreshBlockhashGet \/ RefreshBlockhashWrite
    \/ GetBlockhashAndSlot

SpecCache == InitCache /\ [][NextCache]_vars

\* C29: every (blockhash, slot) pair get_blockhash_and_slot returns was
\* stored by one and the same write of the cache.
C29_PairFromOneRefresh ==
    last.op = "get_blockhash_and_slot" =>
        last.blockhash_written_by = last.slot_written_by

\* the error of the first check that fails when the checks are made in the
\* order: item lookup, different-slot rule, signer key among the callback
\* metas, proof verification
first_failing_check(tx) ==
    LET found == find_item_by_id(queue_data[tx.queue], tx.input)
    IN IF ~found.found THEN "RandomnessRequestNotFound"
       ELSE IF slot <= slot_value(found.item.slot)
       THEN "OracleMustProvideInDifferentSlot"
       ELSE IF names_signer(tx) THEN "InvalidCallbackAccounts"
       ELSE IF ~tx.verified THEN "InvalidProof"
       ELSE "none"

\* C30: ProvideRandomness of a registered oracle returns the error of the
\* first failing check in the order item lookup, different-slot rule,
\* signer key among the callback metas, proof verification; an input that
\* is not in the queue yields RandomnessRequestNotFound even when the proof
\* is invalid.
C30_ChecksInOrder ==
    \A tx \in ProvideTxs :
        (tx.signer \in DOMAIN oracle_data /\ first_failing_check(tx) # "none")
            => tx.r.res = first_failing_check(tx)

\* C31: the id of every running fulfillment task has an entry in the
\* in-flight map of the worker's queue.
C31_RunningTaskIsInflight ==
    \A t \in TaskIds :
        task_running(t) => task[t].item.id \in DOMAIN inflight_requests

\* the ids that the invocation of caller c forgets in lines 145-172
gone_ids(c) ==
    DOMAIN inflight_requests
        \ {invocation[c].items[i].id : i \in 1..Len(invocation[c].items)}
tracks(c) == invocation[c].pc = "track" /\ invocation'[c].pc # "track"

\* C32: when process_oracle_queue handles a snapshot in which an in-flight id
\* is absent, the id has no in-flight entry and no running task afterwards,
\* and the tasks of the other ids are left as they were.
C32_ForgetCancels ==
    [][\A c \in Callers :
          tracks(c) =>
              /\ gone_ids(c) \cap DOMAIN inflight_requests' = {}
              /\ \A t \in TaskIds :
                     IF task_running(t) /\ task[t].item.id \in gone_ids(c)
                     THEN task'[t].pc = "unborn"
                     ELSE task'[t] = task[t]]_vars

(***************************************************************************)
(* The worker within one slot: requests, notifications, scans, invocations *)
(* and tasks interleave as in SpecWorker, the clock stands still, so every *)
(* task sends ProvideRandomness.                                           *)
(***************************************************************************)
NextTasks ==
    \/ WorkerRequest
    \/ StreamNotify \/ LoseNotification \/ ReconcilerScan
    \/ InvocationStep \/ TaskStep

SpecTasks == InitWorker /\ [][NextTasks]_vars

\* the task's own last step, after a confirmed transaction (lines 287-292) or
\* after its attempts ran out (lines 294-300)
ends_confirmed(t) ==
    /\ task[t].pc = "cleanup_tasks" /\ task[t].confirmed_success
    /\ task'[t].pc = "unborn" /\ \A c \in Callers : ~tracks(c)
ends_exhausted(t) ==
    /\ task[t].pc = "cleanup_inflight"
    /\ task'[t].pc = "unborn" /\ \A c \in Callers : ~tracks(c)
\* the invocation of caller c passes the vacant-entry check for an id
finds_vacant(c) ==
    /\ invocation[c].pc = "items" /\ invocation'[c] # invocation[c]
    /\ Head(invocation[c].items).id \notin DOMAIN inflight_requests

\* C33: a task that ends after a confirmed transaction leaves the in-flight
\* map as it is, and an id leaves the map only through a snapshot without it
\* or through a task that ends unconfirmed with its attempts exhausted; such
\* a task removes its id, and an invocation that then finds the id in its
\* snapshot spawns a new task for it.
C33_EntryOutlivesConfirmedTask ==
    [][/\ \A t \in TaskIds :
             /\ ends_confirmed(t) => inflight_requests' = inflight_requests
             /\ ends_exhausted(t) =>
                    /\ ~task[t].confirmed_success
                    /\ task[t].attempts >= MAX_ATTEMPTS
                    /\ task[t].item.id \notin DOMAIN inflight_requests'
       /\ \A id \in DOMAIN inflight_requests \ DOMAIN inflight_requests' :
             \/ \E c \in Callers : tracks(c) /\ id \in gone_ids(c)
             \/ \E t \in TaskIds : ends_exhausted(t) /\ task[t].item.id = id
       /\ \A c \in Callers :
             finds_vacant(c) =>
                 \E t \in TaskIds :
                     /\ task[t].pc = "unborn" /\ task'[t].pc = "run"
                     /\ task'[t].attempts = 0
                     /\ task'[t].item = Head(invocation[c].items)
                     /\ task'[t].item.id \in DOMAIN inflight_requests']_vars
\* a task whose attempts ran out has dropped its handle and is about to drop
\* the in-flight entry of an item that is still in the queue
C33_Witness ==
    \E t \in TaskIds :
        /\ task[t].pc = "cleanup_inflight" /\ task[t].attempts >= MAX_ATTEMPTS
        /\ task[t].item.id \in DOMAIN inflight_requests
        /\ task[t].item.id \notin DOMAIN active_tasks
        /\ find_item_by_id(queue_data[WorkerQueue], task[t].item.id).found

(***************************************************************************)
(* Fairness for the tasks: the runtime keeps polling a spawned task, every *)
(* RPC call of its loop returns (with a signature, a verdict or an error)  *)
(* and the locks of its cleanup are released by their holders, so a task   *)
(* that can take a step eventually takes one.  process_item returns        *)
(* sig.to_string() of the Signature the RPC client handed back, which      *)
(* parses as a Signature again: the `continue` of lines 234-239 is never   *)
(* taken and has no step here.                                             *)
(***************************************************************************)
task_step(t) ==
    \/ TaskFailed(t) \/ TaskConfirmed(t) \/ TaskUnconfirmed(t)
    \/ TaskCleanupTasks(t) \/ TaskCleanupInflight(t)
SpecTasksFair == SpecTasks /\ \A t \in TaskIds : WF_vars(task_step(t))

\* C34: every fulfillment task terminates: a confirmed task is out of its
\* retry loop, every other pass through the loop increases the attempt
\* counter, the loop is left once the counter reaches the limit, and a
\* running task eventually has ended.
C34_TaskTerminates ==
    /\ [](\A t \in TaskIds :
             task[t].pc = "run" =>
                 ~task[t].confirmed_success /\ task[t].attempts < MAX_ATTEMPTS)
    /\ [][\A t \in TaskIds :
             (task[t].pc = "run" /\ task'[t] # task[t]) =>
                 \/ task'[t].pc # "run"
                 \/ task'[t].attempts > task[t].attempts]_vars
    /\ \A t \in TaskIds : task_running(t) ~> ~task_running(t)
\* a task has left its loop unconfirmed, its counter at or past the limit
C34_Witness ==
    \E t \in TaskIds :
        /\ task[t].pc = "cleanup_tasks" /\ ~task[t].confirmed_success
        /\ task[t].attempts >= MAX_ATTEMPTS

\* the bytes add_item appends for a template at the cursor of acc
engine_footprint(acc, t) ==
    align_up(header_cursor(acc), QUEUE_ITEM_ALIGN) - header_cursor(acc)
        + QUEUE_ITEM_SIZE + Len(t.discriminator)
        + Len(t.metas) * COMPACT_META_SIZE + Len(t.args)

\* C35: header.cursor never decreases under add_item, remove_item and the
\* purge scan, whether the call succeeds or fails, and removing makes no
\* room: an item whose bytes would pass the end of the account is refused
\* with AccountDataTooSmall whatever item_count is, 0 included.
C35_CursorNeverDecreases ==
    /\ [][header_cursor(queue_data'[EngineQueue])
             >= header_cursor(queue_data[EngineQueue])]_vars
    /\ [](\A acc \in {queue_data[EngineQueue]} :
          \A t \in EngineTemplates :
          \A a \in {engine_add(acc, t)} :
              /\ header_cursor(a.acc) >= header_cursor(acc)
              /\ header_cursor(acc) + engine_footprint(acc, t) > Len(acc)
                     => a.res = "AccountDataTooSmall")
\* every item has been removed and no template fits any more
C35_Witness ==
    /\ header_item_count(queue_data[EngineQueue]) = 0
    /\ header_cursor(queue_data[EngineQueue]) > items_start
    /\ last.op \in {"remove_item", "purge"}
    /\ \A t \in EngineTemplates :
           engine_add(queue_data[EngineQueue], t).res = "AccountDataTooSmall"

\* C37: add_item is all-or-nothing in the queue engine: a call that returns
\* an error leaves header.cursor and header.item_count as they were, and a
\* later add_item that succeeds makes iter_items yield the items that were
\* live before followed by the new one, nothing else.
C37_FailedAddChangesNothing ==
    \A acc \in {queue_data[EngineQueue]} :
    \A t \in EngineTemplates :
    \A a \in {engine_add(acc, t)} :
        a.res # "Ok" =>
            /\ header_cursor(a.acc) = header_cursor(acc)
            /\ header_item_count(a.acc) = header_item_count(acc)
            /\ \A u \in EngineTemplates :
               \A b \in {engine_add(a.acc, u)} :
                   b.res = "Ok" =>
                       /\ Len(iter_items(b.acc)) = Len(iter_items(acc)) + 1
                       /\ \A i \in 1..Len(iter_items(acc)) :
                              iter_items(b.acc)[i] = iter_items(acc)[i]
                       /\ iter_items(b.acc)[Len(iter_items(acc)) + 1].id = u.base_item.id

\* the fees the items of a list paid in
RECURSIVE fees_of(_)
fees_of(items) ==
    IF items = <<>> THEN 0 ELSE item_cost(Head(items)) + fees_of(Tail(items))

\* C36: every queue other than the default ephemeral queue holds at least
\* its rent-exempt minimum plus the fee of every live item, so that
\* transfer_fee of a live item's fee from the queue PDA to the oracle
\* succeeds and leaves the queue at or above the rent-exempt minimum.
C36_QueueHoldsLiveFees ==
    \A q \in DOMAIN queue_data \ {DEFAULT_EPHEMERAL_QUEUE} :
    \A items \in {iter_items(queue_data[q])} :
        /\ lamports[q] >= rent_minimum(q) + fees_of(items)
        /\ \A i \in 1..Len(items) :
           \A f \in {transfer_fee(lamports, q, wallet(q[1]), item_cost(items[i]))} :
               /\ f.res = "Ok"
               /\ f.lamports[q] >= rent_minimum(q) + fees_of(items) - item_cost(items[i])
\* a valid ProvideRandomness has been committed on a paying queue that still
\* holds a high-priority item
C36_Witness ==
    /\ last.op = "Provide" /\ last.verified
    /\ last.queue # DEFAULT_EPHEMERAL_QUEUE
    /\ \E i \in 1..Len(iter_items(queue_data[last.queue])) :
           iter_items(queue_data[last.queue])[i].priority_request = 1

\* the request with the id is still pending in the on-chain queue
pending_on_chain(id) == find_item_by_id(queue_data[WorkerQueue], id).found

\* C38: process_oracle_queue removes an in-flight entry and aborts a task
\* only for an id that has left the on-chain queue, also when the snapshot
\* it handles is older than one already handled.
C38_CancelOnlyWhenLeft ==
    [][\A c \in Callers :
          tracks(c) =>
              /\ \A id \in gone_ids(c) : ~pending_on_chain(id)
              /\ \A t \in TaskIds :
                     (task_running(t) /\ task'[t].pc = "unborn")
                         => ~pending_on_chain(task[t].item.id)]_vars

(***************************************************************************)
(* BlockhashCache in runs of any length.  The worker's clock keeps running *)
(* (once it has reached MaxNow the stored timestamp is moved back instead, *)
(* which keeps every age up to MaxNow), every RPC call answers Ok, the     *)
(* refresh loop is scheduled fairly and a refresh_blockhash call returns.  *)
(* Fulfillment tasks call refresh_blockhash whenever an attempt failed.    *)
(***************************************************************************)
Elapse ==
    /\ IF now < MaxNow
       THEN now' = now + 1 /\ UNCHANGED cache_timestamp
       ELSE now' = now /\ cache_timestamp' = saturating_sub(cache_timestamp, 1)
    /\ UNCHANGED <<chain_vars, inflight_requests, active_tasks, task, invocation,
                   notification, cache_slot, cache_blockhash,
                   refresh_task, refresh_call, written_by>>

\* spawn_refresh_task, lines 49-56
LoopWake ==
    /\ refresh_task.pc = "sleep"
    /\ now - cache_timestamp > CACHE_MAX_AGE
    /\ refresh_task' = [refresh_task EXCEPT !.pc = "get_latest_blockhash"]
    /\ UNCHANGED <<chain_vars, inflight_requests, active_tasks, task, invocation,
                   notification, cache_slot, cache_blockhash, cache_timestamp,
                   now, refresh_call, written_by>>

\* lines 57-59
LoopGetBlockhash ==
    /\ refresh_task.pc = "get_latest_blockhash"
    /\ refresh_task' = [pc |-> "get_slot",
                        latest |-> [ok |-> TRUE, value |-> latest_blockhash(slot)]]
    /\ UNCHANGED <<chain_vars, inflight_requests, active_tasks, task, invocation,
                   notification, cache_slot, cache_blockhash, cache_timestamp,
                   now, refresh_call, written_by>>

\* lines 60-68
LoopGetSlotAndWrite ==
    /\ refresh_task.pc = "get_slot"
    /\ refresh_task' = sleeping_refresh
    /\ cache_blockhash' = refresh_task.latest.value
    /\ cache_slot' = slot
    /\ cache_timestamp' = now
    /\ UNCHANGED <<chain_vars, inflight_requests, active_tasks, task, invocation,
                   notification, now, refresh_call, written_by>>

\* refresh_blockhash, lines 86-89, called by a task after a failed attempt
ForcedGet ==
    /\ refresh_call.pc = "idle"
    /\ refresh_call' = [pc |-> "write",
                        latest |-> [ok |-> TRUE, value |-> latest_blockhash(slot)]]
    /\ UNCHANGED <<chain_vars, inflight_requests, active_tasks, task, invocation,
                   notification, cache_slot, cache_blockhash, cache_timestamp,
                   now, refresh_task, written_by>>

\* refresh_blockhash, lines 90-94
ForcedWrite ==
    /\ refresh_call.pc = "write"
    /\ refresh_call' = no_refresh_call
    /\ cache_blockhash' = refresh_call.latest.value
    /\ cache_timestamp' = now
    /\ UNCHANGED <<chain_vars, inflight_requests, active_tasks, task, invocation,
                   notification, cache_slot, now, refresh_task, written_by>>

\* process_item, lines 338-342: the item counts as expired by the cached slot
treated_as_expired(item_slot) ==
    saturating_sub(cache_slot, item_slot) > QUEUE_TTL_SLOTS

NextCacheFair ==
    \/ AdvanceSlot \/ Elapse
    \/ LoopWake \/ LoopGetBlockhash \/ LoopGetSlotAndWrite
    \/ ForcedGet \/ ForcedWrite

SpecCacheFair ==
    /\ InitCache /\ [][NextCacheFair]_vars
    /\ WF_vars(Elapse)
    /\ WF_vars(LoopWake) /\ WF_vars(LoopGetBlockhash) /\ WF_vars(LoopGetSlotAndWrite)
    /\ WF_vars(ForcedWrite)

\* C39: in every fair run the cached slot eventually reaches every slot the
\* chain has reached, also while tasks keep calling refresh_blockhash, and
\* an item whose on-chain age exceeds QUEUE_TTL_SLOTS is eventually treated
\* as expired by process_item.
C39_CachedSlotCatchesUp ==
    \A s \in 0..MaxSlot :
        /\ (slot = s) ~> (cache_slot >= s)
        /\ (slot - s > QUEUE_TTL_SLOTS) ~> treated_as_expired(s)

(***************************************************************************)
(* Queues from their first request to their closing.  Both oracles were    *)
(* registered at slot 0 and each opened its queue 0, paid for by the       *)
(* payer, at slot ORACLE_ACTIVATION_SLOTS, where the run starts; the queue *)
(* of oracle 2 is the default ephemeral queue.                             *)
(***************************************************************************)
ClockTick ==
    /\ slot < ORACLE_ACTIVATION_SLOTS + MaxSlot
    /\ slot' = slot + 1
    /\ UNCHANGED <<oracle_data, oracles, queue_data, lamports, fulfilled, last>>
    /\ UNCHANGED worker_vars

InitPurgeClose ==
    /\ slot = ORACLE_ACTIVATION_SLOTS
    /\ oracles = <<1, 2>>
    /\ oracle_data = [i \in Identities |->
                         [vrf_pubkey |-> vrf_public(i), registration_slot |-> 0,
                          open_queue |-> 0]]
    /\ queue_data = [q \in RegistryQueues |-> empty_queue(q)]
    /\ lamports = [a \in RegistryAccounts |->
                      IF a \in RegistryQueues THEN rent_minimum(a)
                      ELSE IF a = wallet(Payer) THEN 2 * VRF_LAMPORTS_COST
                      ELSE IF a = oracles_pda THEN oracles_len(<<1, 2>>)
                      ELSE IF a \in {oracle_data_pda(i) : i \in Identities}
                      THEN oracle_len
                      ELSE 0]
    /\ fulfilled = [q \in RegistryQueues |-> {}]
    /\ last = [op |-> "Init"]
    /\ WorkerInit

NextPurgeClose ==
    \/ RegistryRequest \/ ProvideOwner \/ Purge \/ CloseOracleQueue \/ ClockTick

SpecPurgeClose == InitPurgeClose /\ [][NextPurgeClose]_vars

\* C40: PurgeExpiredRequests changes no lamport balance, the balance of a
\* queue PDA does not go down while the queue exists, and a successful
\* CloseOracleQueue moves the queue's whole balance to the oracle identity.
C40_PurgeKeepsLamports ==
    /\ [](\A tx \in PurgeTxs : tx.r.lamports = lamports)
    /\ [](\A c \in CloseCalls :
          \A r \in {close_call(c)} :
              r.res = "Ok" =>
                  r.lamports = [lamports EXCEPT
                                   ![c.queue] = 0,
                                   ![wallet(c.oracle_info)] = @ + lamports[c.queue]])
    /\ [][\A q \in DOMAIN queue_data \cap DOMAIN queue_data' :
             lamports'[q] >= lamports[q]]_vars
\* a purge has removed a request from a paying queue, whose fee is still in
\* the queue PDA, and the queue's oracle can close it
C40_Witness ==
    /\ last.op = "Purge" /\ last.removed # <<>>
    /\ last.queue # DEFAULT_EPHEMERAL_QUEUE
    /\ lamports[last.queue] > rent_minimum(last.queue)
    /\ \E c \in CloseCalls : c.queue = last.queue /\ close_call(c).res = "Ok"
====
